---- MODULE Spec2Model ----
(***************************************************************************)
(* Model of the audio engine of the headset firmware:                      *)
(*   lib/AudioProcessing/AudioProcessing.{h,cpp}  (AudioProcessor,         *)
(*   AudioUtils, AudioEffects) and the audio task of src/main.cpp.         *)
(*                                                                         *)
(* Numbers.  The code computes in IEEE single precision.  The model uses   *)
(* fixed point: a float value v is the integer v * ONE (ONE = 2^15), and   *)
(* every product and quotient is truncated toward zero to that grid.  An   *)
(* int16 sample divided by 32768.0f is exact on this grid, as it is in     *)
(* float.  NaN (0/0 for an empty frame) is the value NaN below; every      *)
(* ordered comparison with it is false, as in IEEE.                        *)
(*                                                                         *)
(* Sizes.  The transform size (512 in the header) is scaled to 4, the      *)
(* frame buffers and the overlap with it (FFT_SIZE = AUDIO_FRAME_SIZE,     *)
(* OVERLAP_SIZE = FFT_SIZE / 2, as in the header).  For 4 points the Hann  *)
(* window and the twiddle factors are exact on the grid.                   *)
(***************************************************************************)
EXTENDS Integers, Sequences, FiniteSets

\* ------------------------------------------------------------ arithmetic

ONE == 2 ^ 15
NaN == 0 - 1

INT16_MIN == 0 - 32768
INT16_MAX == 32767

Abs(x) == IF x < 0 THEN 0 - x ELSE x
Sgn(x) == IF x < 0 THEN 0 - 1 ELSE 1

\* (float)n for an integer n
F(n) == n * ONE

\* a * b on the grid, truncated toward zero (split so that no partial
\* product leaves 32 bits)
MulPos(a, b) ==
    LET qa == a \div ONE
        ra == a % ONE
        qb == b \div ONE
        rb == b % ONE
    IN  qa * b + ra * qb + (ra * rb) \div ONE

FMul(a, b) == Sgn(a) * Sgn(b) * MulPos(Abs(a), Abs(b))

\* a / b on the grid, truncated toward zero: long division, one bit of the
\* quotient per step
RECURSIVE DivBits(_, _, _, _)
DivBits(q, r, d, n) ==
    IF n = 0 THEN q
    ELSE IF 2 * r >= d THEN DivBits(2 * q + 1, 2 * r - d, d, n - 1)
         ELSE DivBits(2 * q, 2 * r, d, n - 1)

FDiv(a, b) ==
    Sgn(a) * Sgn(b) * DivBits(Abs(a) \div Abs(b), Abs(a) % Abs(b), Abs(b), 15)

\* sqrt on the grid: x is a product of two grid values (scale ONE * ONE)
RECURSIVE SqrtSearch(_, _, _)
SqrtSearch(n, lo, hi) ==
    IF lo >= hi THEN lo
    ELSE LET mid == (lo + hi + 1) \div 2
         IN  IF mid * mid <= n THEN SqrtSearch(n, mid, hi)
             ELSE SqrtSearch(n, lo, mid - 1)

ISqrt(n) == SqrtSearch(n, 0, 46340)

\* IEEE ordered comparison
FGt(a, b) == a # NaN /\ b # NaN /\ a > b

\* a float array of n entries, all v
Arr(n, v) == [i \in 0 .. (n - 1) |-> v]

\* a null pointer (no buffer)
Null == <<>>

\* ------------------------------------------------------------- constants

\* AudioProcessing.h (sizes scaled, see the head of the module)
AUDIO_FRAME_SIZE == 4
FFT_SIZE == 4
OVERLAP_SIZE == FFT_SIZE \div 2
VAD_HANGOVER_FRAMES == 5
VAD_TRIGGER_FRAMES == 3
VAD_ENERGY_THRESHOLD == (2 * ONE) \div 100
VAD_ZCR_THRESHOLD == ONE \div 10
NOISE_FLOOR_ALPHA == (95 * ONE) \div 100
SPECTRAL_FLOOR == ONE \div 10

\* 0.001f: the initial value of every noise bin and of noiseFloor
NOISE_INIT == ONE \div 1000
\* 1e-10f in computeWienerFilter: below the grid, so the smallest positive
\* grid value stands for it
WIENER_EPS == 1
\* 32768.0f, the int16 full scale of both conversions
FULL_SCALE == 32768

\* ------------------------------------------------------ spectral transform

\* cos and sin of -2*pi/len for the stage lengths of a transform of at most
\* 8 points (len = 8: the square root of 1/2, 23170 grid steps)
TwiddleCos(len) ==
    CASE len = 1 -> ONE [] len = 2 -> 0 - ONE [] len = 4 -> 0 [] len = 8 -> 23170
TwiddleSin(len) ==
    CASE len = 1 -> 0 [] len = 2 -> 0 [] len = 4 -> 0 - ONE [] len = 8 -> 0 - 23170

\* cos(2*pi*i / (FFT_SIZE - 1)) for FFT_SIZE = 4: thirds of a turn
HannCos(i) == IF i % 3 = 0 THEN ONE ELSE 0 - (ONE \div 2)

\* begin(): windowBuffer[i] = 0.5f * (1.0f - cos(2*pi*i / (FFT_SIZE - 1)))
HannWindow == [i \in 0 .. (FFT_SIZE - 1) |-> FMul(ONE \div 2, ONE - HannCos(i))]

\* applyWindow: buffer[i] *= windowBuffer[i]
applyWindow(buffer, window, size) ==
    [i \in DOMAIN buffer |-> IF i < size THEN FMul(buffer[i], window[i]) ELSE buffer[i]]

\* j & bit for a power of two bit
BitSet(j, bit) == bit > 0 /\ (j \div bit) % 2 = 1

\* the inner while loop of the bit reversal and the j ^= bit after it
RECURSIVE ReverseIncrement(_, _)
ReverseIncrement(j, bit) ==
    IF BitSet(j, bit) THEN ReverseIncrement(j - bit, bit \div 2)
    ELSE j + bit

Swap(a, i, j) == [a EXCEPT ![i] = a[j], ![j] = a[i]]

\* the bit-reversal loop of fft, from index i on, with the running j
RECURSIVE BitReversal(_, _, _, _)
BitReversal(c, i, j, size) ==
    IF i >= size THEN c
    ELSE LET j2 == ReverseIncrement(j, size \div 2)
         IN  IF i < j2
             THEN BitReversal([re |-> Swap(c.re, i, j2), im |-> Swap(c.im, i, j2)],
                              i + 1, j2, size)
             ELSE BitReversal(c, i + 1, j2, size)

\* the twiddle factor w after j steps of w = w * wlen, starting from 1
RECURSIVE Twiddle(_, _)
Twiddle(len, j) ==
    IF j = 0 THEN [r |-> ONE, i |-> 0]
    ELSE LET w == Twiddle(len, j - 1)
         IN  [r |-> FMul(w.r, TwiddleCos(len)) - FMul(w.i, TwiddleSin(len)),
              i |-> FMul(w.r, TwiddleSin(len)) + FMul(w.i, TwiddleCos(len))]

\* one stage of the butterfly loops of fft: every index is written by one
\* butterfly, u = i + j or v = i + j + len/2
Butterflies(c, len, size) ==
    LET half == len \div 2
        IsU(k) == (k % len) < half
        U(k) == IF IsU(k) THEN k ELSE k - half
        V(k) == U(k) + half
        W(k) == Twiddle(len, U(k) % len)
        dr(k) == c.re[U(k)] - c.re[V(k)]
        di(k) == c.im[U(k)] - c.im[V(k)]
    IN  [re |-> [k \in DOMAIN c.re |->
                  IF k >= size THEN c.re[k]
                  ELSE IF IsU(k) THEN c.re[U(k)] + c.re[V(k)]
                  ELSE FMul(dr(k), W(k).r) - FMul(di(k), W(k).i)],
         im |-> [k \in DOMAIN c.im |->
                  IF k >= size THEN c.im[k]
                  ELSE IF IsU(k) THEN c.im[U(k)] + c.im[V(k)]
                  ELSE FMul(dr(k), W(k).i) + FMul(di(k), W(k).r)]]

RECURSIVE Stages(_, _, _)
Stages(c, len, size) ==
    IF len > size THEN c ELSE Stages(Butterflies(c, len, size), 2 * len, size)

\* fft(real, imag, size), in place on the pair c = [re, im]
fft(c, size) == Stages(BitReversal(c, 1, 0, size), 2, size)

\* ifft(real, imag, size): conjugate, fft, conjugate and scale by 1/size
ifft(c, size) ==
    LET conj == [re |-> c.re,
                 im |-> [i \in DOMAIN c.im |-> IF i < size THEN 0 - c.im[i] ELSE c.im[i]]]
        t == fft(conj, size)
    IN  [re |-> [i \in DOMAIN t.re |-> IF i < size THEN FDiv(t.re[i], F(size)) ELSE t.re[i]],
         im |-> [i \in DOMAIN t.im |-> IF i < size THEN FDiv(0 - t.im[i], F(size)) ELSE t.im[i]]]

\* sqrt of a grid value
FSqrt(v) == ISqrt(v * ONE)

\* atan2(imag, real): the angle is kept as its direction <<cos, sin>>;
\* atan2(0, 0) = 0
Atan2(im, re) ==
    LET h == FSqrt(FMul(re, re) + FMul(im, im))
    IN  IF h = 0 THEN <<ONE, 0>> ELSE <<FDiv(re, h), FDiv(im, h)>>
Cos(p) == p[1]
Sin(p) == p[2]

\* computeMagnitudePhase(real, imag, mag, phase, size)
computeMagnitude(c, size) ==
    [i \in 0 .. (size - 1) |-> FSqrt(FMul(c.re[i], c.re[i]) + FMul(c.im[i], c.im[i]))]
computePhase(c, size) ==
    [i \in 0 .. (size - 1) |-> Atan2(c.im[i], c.re[i])]

\* computeRealImag with a mirror loop that copies the imaginary part without
\* negating it
computeRealImagNoConjugate(mag, ph, c, size) ==
    LET lowRe == [i \in DOMAIN c.re |-> IF i < size THEN FMul(mag[i], Cos(ph[i])) ELSE c.re[i]]
        lowIm == [i \in DOMAIN c.im |-> IF i < size THEN FMul(mag[i], Sin(ph[i])) ELSE c.im[i]]
    IN  [re |-> [i \in DOMAIN c.re |->
                  IF i >= size /\ i < 2 * size THEN lowRe[2 * size - i] ELSE lowRe[i]],
         im |-> [i \in DOMAIN c.im |->
                  IF i >= size /\ i < 2 * size THEN lowIm[2 * size - i] ELSE lowIm[i]]]

\* computeRealImag(mag, phase, real, imag, size): the lower half from
\* magnitude and phase, then the mirror loop for i = size .. 2*size-1, which
\* reads index 2*size - i (for i = size that is index size itself, still
\* holding what the forward transform left there)
computeRealImag(mag, ph, c, size) ==
    LET lowRe == [i \in DOMAIN c.re |-> IF i < size THEN FMul(mag[i], Cos(ph[i])) ELSE c.re[i]]
        lowIm == [i \in DOMAIN c.im |-> IF i < size THEN FMul(mag[i], Sin(ph[i])) ELSE c.im[i]]
    IN  [re |-> [i \in DOMAIN c.re |->
                  IF i >= size /\ i < 2 * size THEN lowRe[2 * size - i] ELSE lowRe[i]],
         im |-> [i \in DOMAIN c.im |->
                  IF i >= size /\ i < 2 * size THEN 0 - lowIm[2 * size - i] ELSE lowIm[i]]]

\* ------------------------------------------------------------------ state

VARIABLES
    inputBuffer, outputBuffer, overlapBuffer, windowBuffer,  \* float*, Null when not allocated
    fftReal, fftImag, magnitude, phase,
    noiseSpectrum, signalSpectrum, wienerFilter,
    energyHistory, zcrHistory,                   \* float[VAD_HANGOVER_FRAMES]
    vadState, vadCounter, hangoverCounter,       \* uint8_t
    noiseFloor, noiseEstimationMode, noiseFrameCount,
    agcEnabled, agcGain,                         \* AudioEffects
    equalizerEnabled, eqStates,                  \* AudioEffects: the equalizer
    heap,        \* the allocator: live, the blocks allocated and not freed;
                 \* overrun, whether a store has landed past the end of a block
    audioIn,     \* the int16 input passed, when the operation called last is
                 \* processFrame or the audio task; empty otherwise
    output,      \* the caller's int16 output array (processedBuffer in the audio task)
    effectsOut,  \* the audio task's float outputBuffer, written by AudioEffects::processFrame
    op,          \* the operation called last
    ret,         \* what the last begin/processFrame returned
    sched,       \* the firmware's tasks: where each one is, the microphone flags,
                 \* and the engine calls made for the frame read last
    codec,       \* the QCC5124Control object, the codec's status register, the
                 \* I2C bus and the contexts of main.cpp that use it
    idf          \* the ESP-IDF firmware under src/main: the Bluetooth, audio and
                 \* power managers, the system task and the event queue

buffers == <<inputBuffer, outputBuffer, overlapBuffer, windowBuffer, fftReal, fftImag,
             magnitude, phase, noiseSpectrum, signalSpectrum, wienerFilter, heap>>
vadVars == <<energyHistory, zcrHistory, vadState, vadCounter, hangoverCounter>>
noiseVars == <<noiseFloor, noiseEstimationMode, noiseFrameCount>>
effectVars == <<agcEnabled, agcGain, effectsOut, equalizerEnabled, eqStates>>
vars == <<buffers, vadVars, noiseVars, effectVars, audioIn, output, op, ret, sched,
         codec, idf>>

\* the tasks of the firmware: loop() and the three tasks setup() creates
Tasks == {"loop", "display", "audio", "vad"}

\* every task at the top of its loop, micEnabled and micMuted false, as the
\* globals are initialized
TasksIdle ==
    [pc |-> [t \in Tasks |-> "idle"], micEnabled |-> FALSE, micMuted |-> FALSE, calls |-> 0,
     now |-> 0,              \* millis(), in polls of updateButtons
     button |-> [pressed |-> FALSE, longPressed |-> FALSE, lastPressed |-> FALSE,
                 pressTime |-> 0, releaseTime |-> 0],   \* buttons[3], the mute button
     queue |-> << >>,        \* buttonQueue
     teamsCommands |-> 0]    \* Ctrl+Shift+M chords sent by sendTeamsMuteCommand

\* the contexts of main.cpp that use the I2C bus: setup(), loop() after it
\* (both the Arduino loop task), displayTask and audioTask
Contexts == {"setup", "loop", "display", "audio"}

\* main.cpp after the initialize...() calls of setup(), before its
\* xTaskCreate calls: no task exists, i2cMutex is NULL, the codec object
\* as its constructor and begin() leave it, the status callback set
CodecIdle ==
    [pc |-> [t \in Contexts |-> IF t = "setup" THEN "init" ELSE "none"],
     i2cMutex |-> "null",     \* "null", "free" or the context holding it
     nullTake |-> FALSE,      \* xSemaphoreTake was called on the NULL handle
     onBus |-> {},            \* the contexts inside an I2C transaction
     status |-> 0,            \* the codec's QCC5124_REG_BT_STATUS, two bits
     changes |-> 0,           \* changes of the register so far
     lastStatus |-> 0,        \* the static of processIncomingData
     currentStatus |-> 0,     \* its local
     isConnected |-> FALSE,
     callbacks |-> << >>]     \* the strings passed to statusCallback

\* src/main at power-on: the statics of bluetooth_manager.c, power_manager.c,
\* audio_manager.c and main.c
IdfIdle ==
    [bt |-> [bt_state |-> "IDLE", bt_initialized |-> FALSE,
             is_connected |-> FALSE,     \* device_info.is_connected
             connects |-> 0,             \* calls of esp_a2dp_sink_connect made
             ret |-> "ESP_OK",           \* what the last call of the manager returned
             link |-> "down",            \* the stack's A2DP link: down, up, streaming
             found |-> [stored |-> FALSE, auto |-> FALSE, ok |-> FALSE]],
                  \* what the last bluetooth_manager_init met: a last device in
                  \* NVS, BT_AUTO_RECONNECT, esp_a2dp_sink_connect succeeding
     system_event_queue |-> [handle |-> FALSE, items |-> << >>],  \* handle: not NULL
     system_state |-> "INIT",
     main |-> [pc |-> "boot", event |-> "none"],   \* system_main_task and its local
     audio |-> [audio_initialized |-> FALSE,
                state |-> "IDLE",               \* audio_config.state
                audio_ringbuf |-> FALSE,        \* the handle is not NULL
                ringbuf |-> [exists |-> FALSE,  \* the ring buffer it points to:
                             items |-> 0,       \* blocks waiting in it,
                             out |-> FALSE],    \* one received and not returned
                task |-> "none",      \* audio_task: none, receive, holding, deleted
                callback |-> "idle",  \* the Bluetooth task in audio_data_callback
                deinit |-> "idle",    \* the caller of audio_manager_deinit
                written |-> 0,        \* blocks written to I2S, and
                discarded |-> 0,      \* blocks returned without a write
                afterDelete |-> FALSE,  \* the ring buffer was used after its delete
                lostItem |-> FALSE],    \* the task was deleted holding an item
     power |-> [power_state |-> "ACTIVE", power_initialized |-> FALSE,
                activity_timeout_ms |-> 2,      \* POWER_SLEEP_TIMEOUT_MS, in ticks
                last_activity_time |-> 0,
                now |-> 0,                      \* xTaskGetTickCount()
                sleep_timer |-> [active |-> FALSE, expiry |-> 0],
                battery_info |-> [voltage_mv |-> 0, is_low |-> FALSE,
                                  is_critical |-> FALSE],
                sleeps |-> 0,         \* SYSTEM_EVENT_POWER_SLEEP sent so far
                lowReadings |-> 0,    \* readings below the low threshold, and
                lowEvents |-> 0]]     \* SYSTEM_EVENT_POWER_LOW sent, since the
                                      \* last reading at or above it

\* ------------------------------------------------------------------ bounds

\* the two counters of the engine that only grow are followed up to these
\* values: vadCounter (consecutive raw-active frames) and noiseFrameCount
\* (noise updates since the last resetNoiseEstimation)
MaxVadCounter == 3
MaxNoiseFrames == 2

\* ---------------------------------------------------------------- the VAD

\* calculateEnergy: sqrt(sum of buffer[i]^2 / size); 0/0 for an empty frame
RECURSIVE SumSquares(_, _)
SumSquares(buffer, size) ==
    IF size = 0 THEN 0
    ELSE SumSquares(buffer, size - 1) + FMul(buffer[size - 1], buffer[size - 1])

calculateEnergy(buffer, size) ==
    IF size = 0 THEN NaN ELSE FSqrt(FDiv(SumSquares(buffer, size), F(size)))

\* calculateZCR: sign changes between neighbours, over size
RECURSIVE Crossings(_, _)
Crossings(buffer, size) ==
    IF size <= 1 THEN 0
    ELSE Crossings(buffer, size - 1)
         + (IF \/ (buffer[size - 1] > 0 /\ buffer[size - 2] < 0)
               \/ (buffer[size - 1] < 0 /\ buffer[size - 2] > 0)
            THEN 1 ELSE 0)

calculateZCR(buffer, size) ==
    IF size = 0 THEN NaN ELSE FDiv(F(Crossings(buffer, size)), F(size))

\* processFrame: history[i] = history[i-1] for i = last .. 1, history[0] = v
ShiftIn(history, v) ==
    [i \in DOMAIN history |-> IF i = 0 THEN v ELSE history[i - 1]]

\* bool currentVAD = (energy > VAD_ENERGY_THRESHOLD) && (zcr > VAD_ZCR_THRESHOLD)
RawActive(energy, zcr) ==
    FGt(energy, VAD_ENERGY_THRESHOLD) /\ FGt(zcr, VAD_ZCR_THRESHOLD)

\* VadUpdate with voice confirmed one frame early (>= VAD_TRIGGER_FRAMES - 1)
VadUpdateEarlyTrigger(currentVAD, v) ==
    IF currentVAD
    THEN LET n == (v.counter + 1) % 256
         IN  [state |-> IF n >= VAD_TRIGGER_FRAMES - 1 THEN 1 ELSE v.state,
              counter |-> n,
              hangover |-> VAD_HANGOVER_FRAMES,
              estimation |-> IF n >= VAD_TRIGGER_FRAMES - 1 THEN FALSE ELSE v.estimation]
    ELSE [state |-> IF v.hangover > 0 THEN v.state ELSE 0,
          counter |-> 0,
          hangover |-> IF v.hangover > 0 THEN v.hangover - 1 ELSE v.hangover,
          estimation |-> v.estimation]

\* VadUpdate with the hangover tested after the decrement (one frame short)
VadUpdateShortHangover(currentVAD, v) ==
    IF currentVAD
    THEN LET n == (v.counter + 1) % 256
         IN  [state |-> IF n >= VAD_TRIGGER_FRAMES THEN 1 ELSE v.state,
              counter |-> n,
              hangover |-> VAD_HANGOVER_FRAMES,
              estimation |-> IF n >= VAD_TRIGGER_FRAMES THEN FALSE ELSE v.estimation]
    ELSE [state |-> IF v.hangover > 1 THEN v.state ELSE 0,
          counter |-> 0,
          hangover |-> IF v.hangover > 0 THEN v.hangover - 1 ELSE v.hangover,
          estimation |-> v.estimation]

\* VadUpdate that leaves the estimation mode on when voice is confirmed
VadUpdateKeepsEstimating(currentVAD, v) ==
    IF currentVAD
    THEN LET n == (v.counter + 1) % 256
         IN  [state |-> IF n >= VAD_TRIGGER_FRAMES THEN 1 ELSE v.state,
              counter |-> n,
              hangover |-> VAD_HANGOVER_FRAMES,
              estimation |-> v.estimation]
    ELSE [state |-> IF v.hangover > 0 THEN v.state ELSE 0,
          counter |-> 0,
          hangover |-> IF v.hangover > 0 THEN v.hangover - 1 ELSE v.hangover,
          estimation |-> v.estimation]

\* the VAD decision of processFrame on the counters
\* v = [state, counter, hangover, estimation]
VadUpdate(currentVAD, v) ==
    IF currentVAD
    THEN LET n == (v.counter + 1) % 256
         IN  [state |-> IF n >= VAD_TRIGGER_FRAMES THEN 1 ELSE v.state,
              counter |-> n,
              hangover |-> VAD_HANGOVER_FRAMES,
              estimation |-> IF n >= VAD_TRIGGER_FRAMES THEN FALSE ELSE v.estimation]
    ELSE [state |-> IF v.hangover > 0 THEN v.state ELSE 0,
          counter |-> 0,
          hangover |-> IF v.hangover > 0 THEN v.hangover - 1 ELSE v.hangover,
          estimation |-> v.estimation]

\* isVoiceActive()
isVoiceActive == vadState = 1

\* ------------------------------------------------- noise estimate and gain

\* NoiseUpdateDue without the estimation-mode test
NoiseUpdateDueAnyMode(state, estimation) == state = 0

\* if (vadState == 0 && noiseEstimationMode) updateNoiseSpectrum(magnitude)
NoiseUpdateDue(state, estimation) == state = 0 /\ estimation

\* updateNoiseSpectrum that adds the new spectrum without scaling the old one
updateNoiseSpectrumNoDecay(noise, spectrum) ==
    [i \in DOMAIN noise |-> noise[i] + FMul(ONE - NOISE_FLOOR_ALPHA, spectrum[i])]

\* updateNoiseSpectrum that subtracts the new spectrum
updateNoiseSpectrumSubtracts(noise, spectrum) ==
    [i \in DOMAIN noise |->
        FMul(NOISE_FLOOR_ALPHA, noise[i]) - FMul(ONE - NOISE_FLOOR_ALPHA, spectrum[i])]

\* updateNoiseSpectrum
updateNoiseSpectrum(noise, spectrum) ==
    [i \in DOMAIN noise |->
        FMul(NOISE_FLOOR_ALPHA, noise[i]) + FMul(ONE - NOISE_FLOOR_ALPHA, spectrum[i])]

\* fmax(a, b)
FMax(a, b) == IF a >= b THEN a ELSE b

\* WienerGain without the spectral floor
WienerGainNoFloor(signal, noise) ==
    LET snr == FDiv(signal, noise + WIENER_EPS)
    IN  FDiv(snr, ONE + snr)

\* computeWienerFilter
WienerGain(signal, noise) ==
    LET snr == FDiv(signal, noise + WIENER_EPS)
    IN  FMax(FDiv(snr, ONE + snr), SPECTRAL_FLOOR)

computeWienerFilter(signal, noise) ==
    [i \in DOMAIN signal |-> WienerGain(signal[i], noise[i])]

\* ------------------------------------------------ overlap-add and output

\* OverlapAdd that drops the retained tail
OverlapAddNoSum(windowed, overlap, out, frameSize) ==
    [i \in DOMAIN out |-> IF i < frameSize THEN windowed[i] ELSE out[i]]

\* the two overlap-add loops of processFrame
OverlapAdd(windowed, overlap, out, frameSize) ==
    [i \in DOMAIN out |->
        IF i < OVERLAP_SIZE THEN windowed[i] + overlap[i]
        ELSE IF i < frameSize THEN windowed[i]
        ELSE out[i]]

\* memcpy(overlapBuffer, &fftReal[frameSize - OVERLAP_SIZE], OVERLAP_SIZE floats)
SaveOverlap(windowed, frameSize) ==
    [i \in 0 .. (OVERLAP_SIZE - 1) |-> windowed[frameSize - OVERLAP_SIZE + i]]

\* memcpy(dst, src, n floats)
Memcpy(dst, src, n) == [i \in DOMAIN dst |-> IF i < n THEN src[i] ELSE dst[i]]

\* constrain without the upper bound
ConstrainNoUpper(amt, low, high) == IF amt < low THEN low ELSE amt

\* Arduino's constrain(amt, low, high)
Constrain(amt, low, high) ==
    IF amt < low THEN low ELSE IF amt > high THEN high ELSE amt

\* (int16_t)x for a float x inside the int16 range: truncation toward zero
TruncToInt(x) == Sgn(x) * (Abs(x) \div ONE)

\* inputBuffer[i] = (float)input[i] / 32768.0f
ToFloat(x) == FDiv(F(x), F(FULL_SCALE))

\* sample = outputBuffer[i] * 32768.0f; output[i] = (int16_t)constrain(sample, -32768, 32767)
ToPcm(x) == TruncToInt(Constrain(x * FULL_SCALE, F(INT16_MIN), F(INT16_MAX)))

\* -------------------------------------------------------------- lifecycle

\* the buffers initializeBuffers() allocates
BufferNames ==
    {"inputBuffer", "outputBuffer", "overlapBuffer", "windowBuffer", "fftReal",
     "fftImag", "magnitude", "phase", "noiseSpectrum", "signalSpectrum", "wienerFilter"}

\* the pointers freeBuffers() tests, and how many of them are not null
Pointers ==
    <<inputBuffer, outputBuffer, overlapBuffer, windowBuffer, fftReal, fftImag,
      magnitude, phase, noiseSpectrum, signalSpectrum, wienerFilter>>
Held == Cardinality({i \in DOMAIN Pointers : Pointers[i] # Null})

\* the allocator before any begin() and after one begin()
HeapEmpty == [live |-> 0, overrun |-> FALSE]
HeapBegun == [live |-> Cardinality(BufferNames), overrun |-> FALSE]

\* the most blocks live at once: two begin() without an end() between them
MaxLiveBlocks == 22

\* NUM_FILTERS, the bands of the equalizer (32 in the source)
NUM_FILTERS == 2

\* eqCoeffs as AudioEffects::begin() leaves them: b0 = 1, b1 = b2 = a1 = a2 = 0
eqCoeffs == [band \in 0 .. (NUM_FILTERS - 1) |-> <<ONE, 0, 0, 0, 0>>]

\* eqStates as AudioEffects::begin() leaves them
EqIdle == [band \in 0 .. (NUM_FILTERS - 1) |-> <<0, 0, 0, 0>>]

\* AudioProcessor::AudioProcessor() and AudioEffects::AudioEffects()
Constructed ==
    /\ inputBuffer = Null /\ outputBuffer = Null /\ overlapBuffer = Null
    /\ windowBuffer = Null /\ fftReal = Null /\ fftImag = Null
    /\ magnitude = Null /\ phase = Null
    /\ noiseSpectrum = Null /\ signalSpectrum = Null /\ wienerFilter = Null
    /\ heap = HeapEmpty
    /\ vadState = 0 /\ vadCounter = 0 /\ hangoverCounter = 0
    /\ noiseFloor = NOISE_INIT
    /\ noiseEstimationMode = TRUE
    /\ noiseFrameCount = 0
    /\ energyHistory = Arr(VAD_HANGOVER_FRAMES, 0)
    /\ zcrHistory = Arr(VAD_HANGOVER_FRAMES, 0)
    /\ agcEnabled = FALSE
    /\ equalizerEnabled = FALSE
    /\ eqStates = EqIdle
    /\ agcGain = ONE

Init ==
    /\ Constructed
    /\ audioIn = << >>
    /\ output = Arr(AUDIO_FRAME_SIZE, 0)
    /\ effectsOut = Arr(AUDIO_FRAME_SIZE, 0)
    /\ op = "construct"
    /\ ret = TRUE
    /\ sched = TasksIdle
    /\ codec = CodecIdle
    /\ idf = IdfIdle

\* begin(): initializeBuffers() (every ps_malloc succeeds; what a fresh
\* buffer holds is never read before it is written and is shown as zeros),
\* the Hann window, the initial noise spectrum and gains
Begin ==
    /\ inputBuffer' = Arr(AUDIO_FRAME_SIZE, 0)
    /\ outputBuffer' = Arr(AUDIO_FRAME_SIZE, 0)
    /\ overlapBuffer' = Arr(OVERLAP_SIZE, 0)
    /\ windowBuffer' = HannWindow
    /\ fftReal' = Arr(FFT_SIZE, 0)
    /\ fftImag' = Arr(FFT_SIZE, 0)
    /\ magnitude' = Arr(FFT_SIZE \div 2, 0)
    /\ phase' = Arr(FFT_SIZE \div 2, <<ONE, 0>>)
    /\ noiseSpectrum' = Arr(FFT_SIZE \div 2, NOISE_INIT)
    /\ signalSpectrum' = Arr(FFT_SIZE \div 2, 0)
    /\ wienerFilter' = Arr(FFT_SIZE \div 2, ONE)
    /\ heap' = [heap EXCEPT !.live = @ + Cardinality(BufferNames)]
    /\ heap'.live <= MaxLiveBlocks
    /\ op' = "begin"
    /\ UNCHANGED <<sched, codec, idf>>
    /\ ret' = TRUE
    /\ audioIn' = << >>
    /\ UNCHANGED <<vadVars, noiseVars, effectVars, output>>

\* end() that frees the buffers without setting the pointers of the frame
\* buffers to null
EndKeepsPointers ==
    /\ overlapBuffer' = Null
    /\ windowBuffer' = Null /\ fftReal' = Null /\ fftImag' = Null
    /\ magnitude' = Null /\ phase' = Null
    /\ noiseSpectrum' = Null /\ signalSpectrum' = Null /\ wienerFilter' = Null
    /\ heap' = [heap EXCEPT !.live = @ - Held]
    /\ op' = "end"
    /\ UNCHANGED <<sched, codec, idf>>
    /\ audioIn' = << >>
    /\ UNCHANGED <<inputBuffer, outputBuffer, vadVars, noiseVars, effectVars, output, ret>>

\* end(): freeBuffers()
End ==
    /\ inputBuffer' = Null /\ outputBuffer' = Null /\ overlapBuffer' = Null
    /\ windowBuffer' = Null /\ fftReal' = Null /\ fftImag' = Null
    /\ magnitude' = Null /\ phase' = Null
    /\ noiseSpectrum' = Null /\ signalSpectrum' = Null /\ wienerFilter' = Null
    /\ heap' = [heap EXCEPT !.live = @ - Held]
    /\ op' = "end"
    /\ UNCHANGED <<sched, codec, idf>>
    /\ audioIn' = << >>
    /\ UNCHANGED <<vadVars, noiseVars, effectVars, output, ret>>

\* resetVAD() that leaves the hangover counter and the history alone
ResetVADKeepsHangover ==
    /\ vadState' = 0
    /\ vadCounter' = 0
    /\ op' = "resetVAD"
    /\ UNCHANGED <<sched, codec, idf>>
    /\ audioIn' = << >>
    /\ UNCHANGED <<buffers, hangoverCounter, energyHistory, zcrHistory, noiseVars,
                   effectVars, output, ret>>

\* resetVAD()
ResetVAD ==
    /\ vadState' = 0
    /\ vadCounter' = 0
    /\ hangoverCounter' = 0
    /\ energyHistory' = Arr(VAD_HANGOVER_FRAMES, 0)
    /\ zcrHistory' = Arr(VAD_HANGOVER_FRAMES, 0)
    /\ op' = "resetVAD"
    /\ UNCHANGED <<sched, codec, idf>>
    /\ audioIn' = << >>
    /\ UNCHANGED <<buffers, noiseVars, effectVars, output, ret>>

\* enableNoiseSupression(enable)
EnableNoiseSupression(enable) ==
    /\ noiseEstimationMode' = enable
    /\ op' = IF enable THEN "enableNoiseSupression(true)" ELSE "enableNoiseSupression(false)"
    /\ UNCHANGED <<sched, codec, idf>>
    /\ audioIn' = << >>
    /\ UNCHANGED <<buffers, vadVars, noiseFloor, noiseFrameCount, effectVars, output, ret>>

\* resetNoiseEstimation(); on an engine without buffers the loop stores
\* through a null pointer: the processor traps and the firmware restarts
ResetNoiseEstimation ==
    IF noiseSpectrum = Null
    THEN /\ inputBuffer' = Null /\ outputBuffer' = Null /\ overlapBuffer' = Null
         /\ windowBuffer' = Null /\ fftReal' = Null /\ fftImag' = Null
         /\ magnitude' = Null /\ phase' = Null
         /\ noiseSpectrum' = Null /\ signalSpectrum' = Null /\ wienerFilter' = Null
         /\ vadState' = 0 /\ vadCounter' = 0 /\ hangoverCounter' = 0
         /\ noiseFloor' = NOISE_INIT
         /\ noiseEstimationMode' = TRUE
         /\ noiseFrameCount' = 0
         /\ energyHistory' = Arr(VAD_HANGOVER_FRAMES, 0)
         /\ zcrHistory' = Arr(VAD_HANGOVER_FRAMES, 0)
         /\ agcEnabled' = FALSE
         /\ equalizerEnabled' = FALSE
         /\ eqStates' = EqIdle
         /\ heap' = HeapEmpty
         /\ agcGain' = ONE
         /\ audioIn' = << >>
         /\ output' = Arr(AUDIO_FRAME_SIZE, 0)
         /\ effectsOut' = Arr(AUDIO_FRAME_SIZE, 0)
         /\ op' = "resetNoiseEstimation"
         /\ UNCHANGED <<sched, codec, idf>>
         /\ ret' = TRUE
    ELSE /\ noiseEstimationMode' = TRUE
         /\ noiseFrameCount' = 0
         /\ noiseSpectrum' = Arr(FFT_SIZE \div 2, NOISE_INIT)
         /\ op' = "resetNoiseEstimation"
         /\ UNCHANGED <<sched, codec, idf>>
         /\ UNCHANGED <<heap, inputBuffer, outputBuffer, overlapBuffer, windowBuffer, fftReal,
                        fftImag, magnitude, phase, signalSpectrum, wienerFilter,
                        vadVars, noiseFloor, effectVars, output, ret>>
         /\ audioIn' = << >>

\* getNoiseFloor()
getNoiseFloor == noiseFloor

\* ---------------------------------------------------------- processFrame

\* if (!inputBuffer || !outputBuffer) return false;
Uninitialized(inBuf, outBuf) == inBuf = Null \/ outBuf = Null

\* if (frameSize == FFT_SIZE) ... else pass-through
FullPath(frameSize) == frameSize = FFT_SIZE

\* the spectral path of processFrame (frameSize == FFT_SIZE), from the copy
\* into fftReal to the saved overlap; every stage is bound once, in the
\* order of the code
SpectralPath(inBuf, frameSize, state, estimation) ==
    \E c2 \in {fft([re |-> applyWindow(Memcpy(fftReal, inBuf, frameSize),
                                       windowBuffer, frameSize),
                    im |-> [i \in DOMAIN fftImag |->
                              IF i < frameSize THEN 0 ELSE fftImag[i]]],
                   frameSize)} :
    \E mag \in {computeMagnitude(c2, frameSize \div 2)} :
    \E ph \in {computePhase(c2, frameSize \div 2)} :
    \E due \in {NoiseUpdateDue(state, estimation)} :
    \E noise \in {IF due THEN updateNoiseSpectrum(noiseSpectrum, mag)
                  ELSE noiseSpectrum} :
    \E gain \in {computeWienerFilter(mag, noise)} :
    \E filtered \in {[i \in DOMAIN mag |-> FMul(mag[i], gain[i])]} :
    \E c4 \in {ifft(computeRealImag(filtered, ph, c2, frameSize \div 2), frameSize)} :
    \E windowed \in {applyWindow(c4.re, windowBuffer, frameSize)} :
        /\ fftReal' = windowed
        /\ fftImag' = c4.im
        /\ magnitude' = filtered
        /\ phase' = ph
        /\ noiseSpectrum' = noise
        /\ noiseFrameCount' = IF due THEN (noiseFrameCount + 1) % 65536
                              ELSE noiseFrameCount
        /\ wienerFilter' = gain
        /\ outputBuffer' = OverlapAdd(windowed, overlapBuffer, outputBuffer, frameSize)
        /\ overlapBuffer' = SaveOverlap(windowed, frameSize)

\* PassThrough that copies nothing
PassThroughDropped(inBuf, frameSize) ==
    UNCHANGED <<outputBuffer, fftReal, fftImag, magnitude, phase, noiseSpectrum,
                noiseFrameCount, wienerFilter, overlapBuffer>>

\* the else branch: memcpy(outputBuffer, inputBuffer, frameSize floats)
PassThrough(inBuf, frameSize) ==
    /\ outputBuffer' = Memcpy(outputBuffer, inBuf, frameSize)
    /\ UNCHANGED <<fftReal, fftImag, magnitude, phase, noiseSpectrum,
                   noiseFrameCount, wienerFilter, overlapBuffer>>

\* the last loop of processFrame: output[i] for i < frameSize
PcmFrame(outBuf, out, frameSize) ==
    [i \in DOMAIN out |-> IF i < frameSize THEN ToPcm(outBuf[i]) ELSE out[i]]

\* ProcessFrameBody whose noise-update decision uses the VAD state and the
\* estimation mode as they were before this frame's VAD update
ProcessFrameBodyStaleVad(input) ==
    \E frameSize \in {Len(input)} :
    \E inBuf \in {[i \in DOMAIN inputBuffer |->
                    IF i < frameSize THEN ToFloat(input[i + 1]) ELSE inputBuffer[i]]} :
    \E energy \in {calculateEnergy(inBuf, frameSize)} :
    \E zcr \in {calculateZCR(inBuf, frameSize)} :
    \E vad \in {VadUpdate(RawActive(energy, zcr),
                          [state |-> vadState, counter |-> vadCounter,
                           hangover |-> hangoverCounter,
                           estimation |-> noiseEstimationMode])} :
        /\ inputBuffer' = inBuf
        /\ energyHistory' = ShiftIn(energyHistory, energy)
        /\ zcrHistory' = ShiftIn(zcrHistory, zcr)
        /\ vadState' = vad.state
        /\ vadCounter' = vad.counter
        /\ hangoverCounter' = vad.hangover
        /\ noiseEstimationMode' = vad.estimation
        /\ IF FullPath(frameSize)
           THEN SpectralPath(inBuf, frameSize, vadState, noiseEstimationMode)
           ELSE PassThrough(inBuf, frameSize)
        /\ ret' = TRUE
        /\ UNCHANGED <<windowBuffer, signalSpectrum, noiseFloor, heap>>
        /\ vadCounter' <= MaxVadCounter
        /\ noiseFrameCount' <= MaxNoiseFrames

\* AudioProcessor::processFrame(input, output, frameSize) on an engine with
\* buffers, up to the conversion of outputBuffer to the caller's array;
\* input is the sequence of the frameSize samples read
ProcessFrameBody(input) ==
    \E frameSize \in {Len(input)} :
    \E inBuf \in {[i \in DOMAIN inputBuffer |->
                    IF i < frameSize THEN ToFloat(input[i + 1]) ELSE inputBuffer[i]]} :
    \E energy \in {calculateEnergy(inBuf, frameSize)} :
    \E zcr \in {calculateZCR(inBuf, frameSize)} :
    \E vad \in {VadUpdate(RawActive(energy, zcr),
                          [state |-> vadState, counter |-> vadCounter,
                           hangover |-> hangoverCounter,
                           estimation |-> noiseEstimationMode])} :
        /\ inputBuffer' = inBuf
        /\ energyHistory' = ShiftIn(energyHistory, energy)
        /\ zcrHistory' = ShiftIn(zcrHistory, zcr)
        /\ vadState' = vad.state
        /\ vadCounter' = vad.counter
        /\ hangoverCounter' = vad.hangover
        /\ noiseEstimationMode' = vad.estimation
        /\ IF FullPath(frameSize)
           THEN SpectralPath(inBuf, frameSize, vad.state, vad.estimation)
           ELSE PassThrough(inBuf, frameSize)
        /\ ret' = TRUE
        /\ UNCHANGED <<windowBuffer, signalSpectrum, noiseFloor, heap>>
        /\ vadCounter' <= MaxVadCounter
        /\ noiseFrameCount' <= MaxNoiseFrames

\* processFrame with frameSize above AUDIO_FRAME_SIZE: the conversion loop
\* stores inputBuffer[i], calculateEnergy and calculateZCR read it and the
\* memcpy writes outputBuffer[i] for i up to frameSize - 1, past the end of
\* both blocks. That is undefined: either the stores land in the memory
\* behind the blocks and the call goes on with the samples it wrote (the
\* block allocated after outputBuffer is overlapBuffer, which the memcpy
\* may or may not reach), or the processor traps and the firmware restarts
ProcessFrameOverrun(input) ==
    \E traps \in BOOLEAN :
        IF traps
        THEN /\ inputBuffer' = Null /\ outputBuffer' = Null /\ overlapBuffer' = Null
             /\ windowBuffer' = Null /\ fftReal' = Null /\ fftImag' = Null
             /\ magnitude' = Null /\ phase' = Null
             /\ noiseSpectrum' = Null /\ signalSpectrum' = Null /\ wienerFilter' = Null
             /\ heap' = HeapEmpty
             /\ vadState' = 0 /\ vadCounter' = 0 /\ hangoverCounter' = 0
             /\ noiseFloor' = NOISE_INIT
             /\ noiseEstimationMode' = TRUE
             /\ noiseFrameCount' = 0
             /\ energyHistory' = Arr(VAD_HANGOVER_FRAMES, 0)
             /\ zcrHistory' = Arr(VAD_HANGOVER_FRAMES, 0)
             /\ ret' = FALSE
        ELSE \E frameSize \in {Len(input)} :
             \E stored \in {[i \in 0 .. (frameSize - 1) |-> ToFloat(input[i + 1])]} :
             \E inBuf \in {[i \in DOMAIN inputBuffer |-> stored[i]]} :
             \E energy \in {calculateEnergy(stored, frameSize)} :
             \E zcr \in {calculateZCR(stored, frameSize)} :
             \E vad \in {VadUpdate(RawActive(energy, zcr),
                                   [state |-> vadState, counter |-> vadCounter,
                                    hangover |-> hangoverCounter,
                                    estimation |-> noiseEstimationMode])} :
                 /\ inputBuffer' = inBuf
                 /\ heap' = [heap EXCEPT !.overrun = TRUE]
                 /\ energyHistory' = ShiftIn(energyHistory, energy)
                 /\ zcrHistory' = ShiftIn(zcrHistory, zcr)
                 /\ vadState' = vad.state
                 /\ vadCounter' = vad.counter
                 /\ hangoverCounter' = vad.hangover
                 /\ noiseEstimationMode' = vad.estimation
                 /\ outputBuffer' = Memcpy(outputBuffer, inBuf, frameSize)
                 /\ \E spills \in BOOLEAN :
                       overlapBuffer' = IF spills
                                        THEN [overlapBuffer EXCEPT ![0] = stored[frameSize - 1]]
                                        ELSE overlapBuffer
                 /\ ret' = TRUE
                 /\ UNCHANGED <<windowBuffer, signalSpectrum, noiseFloor, fftReal, fftImag,
                                magnitude, phase, noiseSpectrum, noiseFrameCount,
                                wienerFilter>>
                 /\ vadCounter' <= MaxVadCounter

\* ProcessFrameCall whose failing path clears the trigger counter
ProcessFrameCallClearing(input) ==
    IF Uninitialized(inputBuffer, outputBuffer)
    THEN /\ ret' = FALSE
         /\ vadCounter' = 0
         /\ UNCHANGED <<buffers, energyHistory, zcrHistory, vadState, hangoverCounter,
                        noiseVars>>
    ELSE ProcessFrameBody(input)

\* what processFrame does to the engine and what it returns; a failing call
\* leaves the caller's array alone
ProcessFrameCall(input) ==
    IF Uninitialized(inputBuffer, outputBuffer)
    THEN /\ ret' = FALSE
         /\ UNCHANGED <<buffers, vadVars, noiseVars>>
    ELSE IF Len(input) > AUDIO_FRAME_SIZE
    THEN ProcessFrameOverrun(input)
    ELSE ProcessFrameBody(input)

PcmResult(input) ==
    IF ret' THEN PcmFrame(outputBuffer', output, Len(input)) ELSE output

\* a call of processFrame by any caller
ProcessFrame(input) ==
    /\ op' = "processFrame"
    /\ UNCHANGED <<sched, codec, idf>>
    /\ ProcessFrameCall(input)
    /\ audioIn' = input
    /\ output' = PcmResult(input)
    /\ UNCHANGED effectVars

\* ------------------------------------------------------------ the frames

\* full-size frames: silence and a loud alternating frame (raw-active)
Silence4 == <<0, 0, 0, 0>>
Voice4 == <<8000, 0 - 8000, 8000, 0 - 8000>>
\* short frames: a faint one (raw-inactive), both ends of the int16 range
\* (raw-active), one loud sample (energy alone), none
Murmur2 == <<5, 5>>
Edge2 == <<32767, 0 - 32768>>
Low1 == <<0 - 32768>>
Empty0 == << >>

Frames == {Silence4, Voice4, Murmur2}
ShortFrames == {Edge2, Low1, Empty0}

Next ==
    \/ Begin
    \/ End
    \/ \E input \in Frames : ProcessFrame(input)
    \/ ResetVAD
    \/ ResetNoiseEstimation
    \/ \E enable \in BOOLEAN : EnableNoiseSupression(enable)

Spec == Init /\ [][Next]_vars

\* ------------------------------------------------- effects and audio task

\* AudioEffects::AudioEffects(): agcTarget, agcAttack, agcRelease
AGC_TARGET == ONE \div 2
AGC_ATTACK == ONE \div 1000
AGC_RELEASE == ONE \div 100
\* constrain(agcGain, 0.1f, 10.0f)
AGC_MIN_GAIN == ONE \div 10
AGC_MAX_GAIN == 10 * ONE

\* the AGC gain is followed this far (in grid steps) from its initial 1.0
MaxAgcDrift == 45

\* AudioUtils::rms
rms(buffer, size) ==
    IF size = 0 THEN NaN ELSE FSqrt(FDiv(SumSquares(buffer, size), F(size)))

\* AgcGainAfter without the constrain
AgcGainAfterUnclamped(gain, level) ==
    IF FGt(level, 0)
    THEN LET error == AGC_TARGET - level
             alpha == IF error > 0 THEN AGC_ATTACK ELSE AGC_RELEASE
         IN  gain + FMul(alpha, error)
    ELSE gain

\* processAGC: the gain after the frame (unchanged unless rms > 0)
AgcGainAfter(gain, level) ==
    IF FGt(level, 0)
    THEN LET error == AGC_TARGET - level
             alpha == IF error > 0 THEN AGC_ATTACK ELSE AGC_RELEASE
         IN  Constrain(gain + FMul(alpha, error), AGC_MIN_GAIN, AGC_MAX_GAIN)
    ELSE gain

\* processAGC: AudioUtils::applyGain with the new gain when rms > 0
processAGC(buffer, size, gain) ==
    IF FGt(rms(buffer, size), 0)
    THEN [i \in DOMAIN buffer |->
            IF i < size THEN FMul(buffer[i], AgcGainAfter(gain, rms(buffer, size)))
            ELSE buffer[i]]
    ELSE buffer

\* biquadFilter(input, coeffs, state): the output and the state left
biquadFilter(input, coeffs, state) ==
    LET out == FMul(coeffs[1], input) + FMul(coeffs[2], state[1])
               + FMul(coeffs[3], state[2]) - FMul(coeffs[4], state[3])
               - FMul(coeffs[5], state[4])
    IN  [out |-> out, state |-> <<input, state[1], out, state[3]>>]

\* the band loop of processEqualizer on one sample, from band on
RECURSIVE EqBands(_, _, _)
EqBands(sample, band, states) ==
    IF band >= NUM_FILTERS THEN [sample |-> sample, states |-> states]
    ELSE LET r == biquadFilter(sample, eqCoeffs[band], states[band])
         IN  EqBands(r.out, band + 1, [states EXCEPT ![band] = r.state])

\* the sample loop of processEqualizer, from sample i on
RECURSIVE EqSamples(_, _, _, _)
EqSamples(buffer, i, size, states) ==
    IF i >= size THEN [buffer |-> buffer, states |-> states]
    ELSE LET r == EqBands(buffer[i], 0, states)
         IN  EqSamples([buffer EXCEPT ![i] = r.sample], i + 1, size, r.states)

\* processEqualizer(buffer, size): the buffer and eqStates left
processEqualizer(buffer, size, states) == EqSamples(buffer, 0, size, states)

\* EffectsFrame with the equalizer ahead of the AGC
EffectsFrameEqFirst(floatBuffer, size, agc, gain, eq, states) ==
    LET afterEq == IF eq THEN processEqualizer(floatBuffer, size, states)
                   ELSE [buffer |-> floatBuffer, states |-> states]
    IN  [buffer |-> IF agc THEN processAGC(afterEq.buffer, size, gain) ELSE afterEq.buffer,
         gain |-> IF agc THEN AgcGainAfter(gain, rms(afterEq.buffer, size)) ELSE gain,
         states |-> afterEq.states]

\* AudioEffects::processFrame: the copy, then the AGC when agcEnabled, then
\* the equalizer when equalizerEnabled; the buffer, agcGain and eqStates
\* left. compressorEnabled and limiterEnabled are false from the
\* constructor on, and nothing under src/ sets them
EffectsFrame(floatBuffer, size, agc, gain, eq, states) ==
    LET afterAgc == IF agc THEN processAGC(floatBuffer, size, gain) ELSE floatBuffer
        afterEq == IF eq THEN processEqualizer(afterAgc, size, states)
                   ELSE [buffer |-> afterAgc, states |-> states]
    IN  [buffer |-> afterEq.buffer,
         gain |-> IF agc THEN AgcGainAfter(gain, rms(floatBuffer, size)) ELSE gain,
         states |-> afterEq.states]

\* AudioEffects::enableAGC: the AGC flag after the call
enableAGC(enable) == enable

\* a 16-bit two's complement wrap
Wrap16(n) == ((n + 32768) % 65536) - 32768

\* audioTask: processedBuffer[i] = (int16_t)(outputBuffer[i] * 32768.0f).
\* Inside the int16 range the cast truncates; outside it the conversion is
\* undefined: the build either keeps the low 16 bits of the truncated value
\* (wraps = TRUE) or saturates
CastInt16(x, wraps) ==
    LET n == TruncToInt(x * FULL_SCALE)
    IN  IF n >= INT16_MIN /\ n <= INT16_MAX THEN n
        ELSE IF wraps THEN Wrap16(n)
        ELSE Constrain(n, INT16_MIN, INT16_MAX)

\* one pass of the loop of audioTask with the microphone on and samples
\* read: processFrame, conversion to float, the effects, conversion back
AudioTaskBody(input) ==
    /\ op' = "audioTask"
    /\ audioIn' = input
    /\ ProcessFrameCall(input)
    /\ \E samples \in {Len(input)} :
       \E processed \in {PcmResult(input)} :
       \E floatBuffer \in {[i \in 0 .. (AUDIO_FRAME_SIZE - 1) |->
                             IF i < samples THEN ToFloat(processed[i]) ELSE 0]} :
       \E chain \in {EffectsFrame(floatBuffer, samples, agcEnabled, agcGain,
                                  equalizerEnabled, eqStates)} :
       \E eff \in {chain.buffer} :
       \E wraps \in BOOLEAN :
          /\ agcGain' = chain.gain
          /\ eqStates' = chain.states
          /\ effectsOut' = [i \in DOMAIN effectsOut |->
                              IF i < samples THEN eff[i] ELSE effectsOut[i]]
          /\ output' = [i \in DOMAIN output |->
                          IF i < samples THEN CastInt16(eff[i], wraps) ELSE processed[i]]
    /\ Abs(agcGain' - ONE) <= MaxAgcDrift
    /\ UNCHANGED <<agcEnabled, equalizerEnabled>>

\* the pass as one step, the other tasks left where they are
AudioTask(input) == AudioTaskBody(input) /\ UNCHANGED <<sched, codec, idf>>

\* frames read by the task: a quiet one, one with a single full-scale sample
Quiet3 == <<1000, 0 - 1000, 1000>>
Loud3 == <<32767, 0, 0>>
TaskFrames == {Quiet3, Loud3, Silence4}

\* the state the task starts in: setup() has run initializeAudio(), that is
\* audioProcessor.begin(), audioEffects.begin() and enableAGC(true)
InitTask ==
    /\ inputBuffer = Arr(AUDIO_FRAME_SIZE, 0)
    /\ outputBuffer = Arr(AUDIO_FRAME_SIZE, 0)
    /\ overlapBuffer = Arr(OVERLAP_SIZE, 0)
    /\ windowBuffer = HannWindow
    /\ heap = HeapBegun
    /\ fftReal = Arr(FFT_SIZE, 0)
    /\ fftImag = Arr(FFT_SIZE, 0)
    /\ magnitude = Arr(FFT_SIZE \div 2, 0)
    /\ phase = Arr(FFT_SIZE \div 2, <<ONE, 0>>)
    /\ noiseSpectrum = Arr(FFT_SIZE \div 2, NOISE_INIT)
    /\ signalSpectrum = Arr(FFT_SIZE \div 2, 0)
    /\ wienerFilter = Arr(FFT_SIZE \div 2, ONE)
    /\ vadState = 0 /\ vadCounter = 0 /\ hangoverCounter = 0
    /\ noiseFloor = NOISE_INIT
    /\ noiseEstimationMode = TRUE
    /\ noiseFrameCount = 0
    /\ energyHistory = Arr(VAD_HANGOVER_FRAMES, 0)
    /\ zcrHistory = Arr(VAD_HANGOVER_FRAMES, 0)
    /\ agcEnabled = enableAGC(TRUE)
    /\ equalizerEnabled = FALSE
    /\ eqStates = EqIdle
    /\ agcGain = ONE
    /\ audioIn = << >>
    /\ output = Arr(AUDIO_FRAME_SIZE, 0)
    /\ effectsOut = Arr(AUDIO_FRAME_SIZE, 0)
    /\ op = "setup"
    /\ ret = TRUE
    /\ sched = TasksIdle
    /\ codec = CodecIdle
    /\ idf = IdfIdle

NextTask == \E input \in TaskFrames : AudioTask(input)

SpecTask == InitTask /\ [][NextTask]_vars

\* ------------------------------------------------------- pass-through runs

\* the engine driven with short frames only
NextPassThrough ==
    \/ Begin
    \/ End
    \/ \E input \in ShortFrames : ProcessFrame(input)

SpecPassThrough == Init /\ [][NextPassThrough]_vars

\* ---------------------------------------------- the gain as a pure function

\* signal and noise magnitudes tried in each bin
Magnitudes == {0, 1, 2, 33, 3277, 16384}
NoiseLevels == {0, 1, 32, 3276, 32768, 65535}

\* an engine after begin() whose magnitude and noise buffers hold any of the
\* values above
InitWiener ==
    /\ inputBuffer = Arr(AUDIO_FRAME_SIZE, 0)
    /\ outputBuffer = Arr(AUDIO_FRAME_SIZE, 0)
    /\ overlapBuffer = Arr(OVERLAP_SIZE, 0)
    /\ windowBuffer = HannWindow
    /\ heap = HeapBegun
    /\ fftReal = Arr(FFT_SIZE, 0)
    /\ fftImag = Arr(FFT_SIZE, 0)
    /\ magnitude \in [0 .. (FFT_SIZE \div 2 - 1) -> Magnitudes]
    /\ phase = Arr(FFT_SIZE \div 2, <<ONE, 0>>)
    /\ noiseSpectrum \in [0 .. (FFT_SIZE \div 2 - 1) -> NoiseLevels]
    /\ signalSpectrum = Arr(FFT_SIZE \div 2, 0)
    /\ wienerFilter = Arr(FFT_SIZE \div 2, ONE)
    /\ vadState = 0 /\ vadCounter = 0 /\ hangoverCounter = 0
    /\ noiseFloor = NOISE_INIT
    /\ noiseEstimationMode = TRUE
    /\ noiseFrameCount = 0
    /\ energyHistory = Arr(VAD_HANGOVER_FRAMES, 0)
    /\ zcrHistory = Arr(VAD_HANGOVER_FRAMES, 0)
    /\ agcEnabled = FALSE
    /\ equalizerEnabled = FALSE
    /\ eqStates = EqIdle
    /\ agcGain = ONE
    /\ audioIn = << >>
    /\ output = Arr(AUDIO_FRAME_SIZE, 0)
    /\ effectsOut = Arr(AUDIO_FRAME_SIZE, 0)
    /\ op = "begin"
    /\ ret = TRUE
    /\ sched = TasksIdle
    /\ codec = CodecIdle
    /\ idf = IdfIdle

\* computeWienerFilter(magnitude, noiseSpectrum, wienerFilter)
ComputeWienerFilter ==
    /\ op = "begin"
    /\ wienerFilter' = computeWienerFilter(magnitude, noiseSpectrum)
    /\ op' = "computeWienerFilter"
    /\ UNCHANGED <<sched, codec, idf>>
    /\ UNCHANGED <<heap, inputBuffer, outputBuffer, overlapBuffer, windowBuffer, fftReal,
                   fftImag, magnitude, phase, noiseSpectrum, signalSpectrum,
                   vadVars, noiseVars, effectVars, audioIn, output, ret>>

SpecWiener == InitWiener /\ [][ComputeWienerFilter]_vars

\* ------------------------------------- the output conversion as a function

\* float samples tried in outputBuffer: the range -2.0 .. 2.0 in steps, and
\* the values around both ends of the int16 range
Levels ==
    {k * 1023 : k \in (0 - 64) .. 64}
        \cup {32766, 32767, 32768, 32769}
        \cup {0 - 32767, 0 - 32768, 0 - 32769, 0 - 32770}

\* an engine after begin() whose outputBuffer holds any of the values above
InitPcm ==
    /\ inputBuffer = Arr(AUDIO_FRAME_SIZE, 0)
    /\ outputBuffer \in {[i \in 0 .. (AUDIO_FRAME_SIZE - 1) |->
                           IF i = 0 THEN a ELSE 0 - a] : a \in Levels}
    /\ overlapBuffer = Arr(OVERLAP_SIZE, 0)
    /\ windowBuffer = HannWindow
    /\ heap = HeapBegun
    /\ fftReal = Arr(FFT_SIZE, 0)
    /\ fftImag = Arr(FFT_SIZE, 0)
    /\ magnitude = Arr(FFT_SIZE \div 2, 0)
    /\ phase = Arr(FFT_SIZE \div 2, <<ONE, 0>>)
    /\ noiseSpectrum = Arr(FFT_SIZE \div 2, NOISE_INIT)
    /\ signalSpectrum = Arr(FFT_SIZE \div 2, 0)
    /\ wienerFilter = Arr(FFT_SIZE \div 2, ONE)
    /\ vadState = 0 /\ vadCounter = 0 /\ hangoverCounter = 0
    /\ noiseFloor = NOISE_INIT
    /\ noiseEstimationMode = TRUE
    /\ noiseFrameCount = 0
    /\ energyHistory = Arr(VAD_HANGOVER_FRAMES, 0)
    /\ zcrHistory = Arr(VAD_HANGOVER_FRAMES, 0)
    /\ agcEnabled = FALSE
    /\ equalizerEnabled = FALSE
    /\ eqStates = EqIdle
    /\ agcGain = ONE
    /\ audioIn = << >>
    /\ output = Arr(AUDIO_FRAME_SIZE, 0)
    /\ effectsOut = Arr(AUDIO_FRAME_SIZE, 0)
    /\ op = "begin"
    /\ ret = TRUE
    /\ sched = TasksIdle
    /\ codec = CodecIdle
    /\ idf = IdfIdle

\* the last loop of processFrame over a whole frame
ConvertOutput ==
    /\ op = "begin"
    /\ output' = PcmFrame(outputBuffer, output, AUDIO_FRAME_SIZE)
    /\ op' = "convert"
    /\ UNCHANGED <<sched, codec, idf>>
    /\ UNCHANGED <<buffers, vadVars, noiseVars, effectVars, audioIn, ret>>

SpecPcm == InitPcm /\ [][ConvertOutput]_vars

\* ------------------------------------------------ begin() short of memory

\* the eleven buffers initializeBuffers() asks ps_malloc for
\* the allocations that fail in one begin(): none, any single one, or all
FailSets == {{}} \cup {{b} : b \in BufferNames} \cup {BufferNames}

\* what ps_malloc leaves in a pointer, written afterwards with fresh or not
Alloc(name, failed, fresh) == IF name \in failed THEN Null ELSE fresh

\* the loops of begin() store through windowBuffer, noiseSpectrum and
\* wienerFilter without a test
NullStore(failed) == failed \cap {"windowBuffer", "noiseSpectrum", "wienerFilter"} # {}

\* begin() when the allocations in failed return null. A store through a
\* null pointer is undefined: either the processor traps and the firmware
\* restarts, or the store lands at address 0 and begin() goes on
BeginAlloc(failed) ==
    \E traps \in IF NullStore(failed) THEN BOOLEAN ELSE {FALSE} :
        IF traps
        THEN /\ inputBuffer' = Null /\ outputBuffer' = Null /\ overlapBuffer' = Null
             /\ windowBuffer' = Null /\ fftReal' = Null /\ fftImag' = Null
             /\ magnitude' = Null /\ phase' = Null
             /\ noiseSpectrum' = Null /\ signalSpectrum' = Null /\ wienerFilter' = Null
             /\ vadState' = 0 /\ vadCounter' = 0 /\ hangoverCounter' = 0
             /\ noiseFloor' = NOISE_INIT
             /\ noiseEstimationMode' = TRUE
             /\ noiseFrameCount' = 0
             /\ energyHistory' = Arr(VAD_HANGOVER_FRAMES, 0)
             /\ zcrHistory' = Arr(VAD_HANGOVER_FRAMES, 0)
             /\ agcEnabled' = FALSE
             /\ equalizerEnabled' = FALSE
             /\ eqStates' = EqIdle
             /\ heap' = HeapEmpty
             /\ agcGain' = ONE
             /\ audioIn' = << >>
             /\ output' = Arr(AUDIO_FRAME_SIZE, 0)
             /\ effectsOut' = Arr(AUDIO_FRAME_SIZE, 0)
             /\ op' = "restart"
             /\ UNCHANGED <<sched, codec, idf>>
             /\ ret' = TRUE
        ELSE /\ inputBuffer' = Alloc("inputBuffer", failed, Arr(AUDIO_FRAME_SIZE, 0))
             /\ outputBuffer' = Alloc("outputBuffer", failed, Arr(AUDIO_FRAME_SIZE, 0))
             /\ overlapBuffer' = Alloc("overlapBuffer", failed, Arr(OVERLAP_SIZE, 0))
             /\ windowBuffer' = Alloc("windowBuffer", failed, HannWindow)
             /\ fftReal' = Alloc("fftReal", failed, Arr(FFT_SIZE, 0))
             /\ fftImag' = Alloc("fftImag", failed, Arr(FFT_SIZE, 0))
             /\ magnitude' = Alloc("magnitude", failed, Arr(FFT_SIZE \div 2, 0))
             /\ phase' = Alloc("phase", failed, Arr(FFT_SIZE \div 2, <<ONE, 0>>))
             /\ noiseSpectrum' = Alloc("noiseSpectrum", failed, Arr(FFT_SIZE \div 2, NOISE_INIT))
             /\ signalSpectrum' = Alloc("signalSpectrum", failed, Arr(FFT_SIZE \div 2, 0))
             /\ wienerFilter' = Alloc("wienerFilter", failed, Arr(FFT_SIZE \div 2, ONE))
             /\ heap' = [heap EXCEPT !.live = @ + Cardinality(BufferNames \ failed)]
             /\ heap'.live <= MaxLiveBlocks
             /\ op' = "begin"
             /\ UNCHANGED <<sched, codec, idf>>
             /\ ret' = TRUE
             /\ audioIn' = << >>
             /\ UNCHANGED <<vadVars, noiseVars, effectVars, output>>

\* the engine begun and ended with memory running short, fed short frames
NextAlloc ==
    \/ \E failed \in FailSets : BeginAlloc(failed)
    \/ End
    \/ \E input \in ShortFrames : ProcessFrame(input)

SpecAlloc == Init /\ [][NextAlloc]_vars

\* ------------------------------------------- the transform as a function

\* sample values of the synthetic frames: quarters, exact under the 1/N scaling
Quarters == {0 - (ONE \div 2), 0, ONE \div 4, ONE \div 2}

\* an engine after begin() whose inputBuffer holds a synthetic frame
InitFft ==
    /\ inputBuffer \in [0 .. (AUDIO_FRAME_SIZE - 1) -> Quarters]
    /\ outputBuffer = Arr(AUDIO_FRAME_SIZE, 0)
    /\ overlapBuffer = Arr(OVERLAP_SIZE, 0)
    /\ windowBuffer = HannWindow
    /\ heap = HeapBegun
    /\ fftReal = Arr(FFT_SIZE, 0)
    /\ fftImag = Arr(FFT_SIZE, 0)
    /\ magnitude = Arr(FFT_SIZE \div 2, 0)
    /\ phase = Arr(FFT_SIZE \div 2, <<ONE, 0>>)
    /\ noiseSpectrum = Arr(FFT_SIZE \div 2, NOISE_INIT)
    /\ signalSpectrum = Arr(FFT_SIZE \div 2, 0)
    /\ wienerFilter = Arr(FFT_SIZE \div 2, ONE)
    /\ vadState = 0 /\ vadCounter = 0 /\ hangoverCounter = 0
    /\ noiseFloor = NOISE_INIT
    /\ noiseEstimationMode = TRUE
    /\ noiseFrameCount = 0
    /\ energyHistory = Arr(VAD_HANGOVER_FRAMES, 0)
    /\ zcrHistory = Arr(VAD_HANGOVER_FRAMES, 0)
    /\ agcEnabled = FALSE
    /\ equalizerEnabled = FALSE
    /\ eqStates = EqIdle
    /\ agcGain = ONE
    /\ audioIn = << >>
    /\ output = Arr(AUDIO_FRAME_SIZE, 0)
    /\ effectsOut = Arr(AUDIO_FRAME_SIZE, 0)
    /\ op = "begin"
    /\ ret = TRUE
    /\ sched = TasksIdle
    /\ codec = CodecIdle
    /\ idf = IdfIdle

\* memcpy(fftReal, inputBuffer, ...); memset(fftImag, 0, ...); fft(fftReal,
\* fftImag, FFT_SIZE)
ForwardTransform ==
    /\ op = "begin"
    /\ \E c \in {fft([re |-> Memcpy(fftReal, inputBuffer, FFT_SIZE),
                      im |-> Arr(FFT_SIZE, 0)], FFT_SIZE)} :
          /\ fftReal' = c.re
          /\ fftImag' = c.im
    /\ op' = "fft"
    /\ UNCHANGED <<sched, codec, idf>>
    /\ UNCHANGED <<heap, inputBuffer, outputBuffer, overlapBuffer, windowBuffer, magnitude,
                   phase, noiseSpectrum, signalSpectrum, wienerFilter,
                   vadVars, noiseVars, effectVars, audioIn, output, ret>>

\* ifft(fftReal, fftImag, FFT_SIZE)
InverseTransform ==
    /\ op = "fft"
    /\ \E c \in {ifft([re |-> fftReal, im |-> fftImag], FFT_SIZE)} :
          /\ fftReal' = c.re
          /\ fftImag' = c.im
    /\ op' = "ifft"
    /\ UNCHANGED <<sched, codec, idf>>
    /\ UNCHANGED <<heap, inputBuffer, outputBuffer, overlapBuffer, windowBuffer, magnitude,
                   phase, noiseSpectrum, signalSpectrum, wienerFilter,
                   vadVars, noiseVars, effectVars, audioIn, output, ret>>

NextFft == ForwardTransform \/ InverseTransform

SpecFft == InitFft /\ [][NextFft]_vars

\* ------------------------------------------------- the effects on their own

\* the AGC gain is followed this far (in grid steps) from each gain of
\* GainStarts
MaxAgcWindow == 170

\* gains the AGC is started from: both ends of its range, the initial 1.0,
\* and target/rms for the two frames below, 0.5 and 2.0 (every gain of the
\* range is reached by some run of frames from 1.0)
GainStarts == {AGC_MIN_GAIN, ONE \div 2, ONE, 2 * ONE, AGC_MAX_GAIN}

\* frames of one constant amplitude: 0.25 (rms 0.25) and clipping level
\* (rms 1.0)
Quarter4 == <<8192, 8192, 8192, 8192>>
Clip4 == <<32767, 0 - 32768, 32767, 0 - 32768>>
EffectFrames == {Silence4, Quarter4, Clip4}

\* floatBuffer[i] = (float)processedBuffer[i] / 32768.0f
FloatFrame(pcm) == [i \in 0 .. (Len(pcm) - 1) |-> ToFloat(pcm[i + 1])]

\* the effects after setup(), with the gain some run of frames has left
InitAgc ==
    /\ inputBuffer = Arr(AUDIO_FRAME_SIZE, 0)
    /\ outputBuffer = Arr(AUDIO_FRAME_SIZE, 0)
    /\ overlapBuffer = Arr(OVERLAP_SIZE, 0)
    /\ windowBuffer = HannWindow
    /\ heap = HeapBegun
    /\ fftReal = Arr(FFT_SIZE, 0)
    /\ fftImag = Arr(FFT_SIZE, 0)
    /\ magnitude = Arr(FFT_SIZE \div 2, 0)
    /\ phase = Arr(FFT_SIZE \div 2, <<ONE, 0>>)
    /\ noiseSpectrum = Arr(FFT_SIZE \div 2, NOISE_INIT)
    /\ signalSpectrum = Arr(FFT_SIZE \div 2, 0)
    /\ wienerFilter = Arr(FFT_SIZE \div 2, ONE)
    /\ vadState = 0 /\ vadCounter = 0 /\ hangoverCounter = 0
    /\ noiseFloor = NOISE_INIT
    /\ noiseEstimationMode = TRUE
    /\ noiseFrameCount = 0
    /\ energyHistory = Arr(VAD_HANGOVER_FRAMES, 0)
    /\ zcrHistory = Arr(VAD_HANGOVER_FRAMES, 0)
    /\ agcEnabled = enableAGC(TRUE)
    /\ equalizerEnabled = FALSE
    /\ eqStates = EqIdle
    /\ agcGain \in GainStarts
    /\ audioIn = << >>
    /\ output = Arr(AUDIO_FRAME_SIZE, 0)
    /\ effectsOut = Arr(AUDIO_FRAME_SIZE, 0)
    /\ op = "setup"
    /\ ret = TRUE
    /\ sched = TasksIdle
    /\ codec = CodecIdle
    /\ idf = IdfIdle

\* the conversion to float and audioEffects.processFrame(floatBuffer,
\* outputBuffer, samples) for the int16 frame input
EffectsProcessFrame(input) ==
    /\ op' = "effects"
    /\ UNCHANGED <<sched, codec, idf>>
    /\ audioIn' = input
    /\ \E samples \in {Len(input)} :
       \E floatBuffer \in {FloatFrame(input)} :
       \E chain \in {EffectsFrame(floatBuffer, samples, agcEnabled, agcGain,
                                  equalizerEnabled, eqStates)} :
       \E eff \in {chain.buffer} :
          /\ agcGain' = chain.gain
          /\ eqStates' = chain.states
          /\ effectsOut' = [i \in DOMAIN effectsOut |->
                              IF i < samples THEN eff[i] ELSE effectsOut[i]]
    /\ \E start \in GainStarts : Abs(agcGain' - start) <= MaxAgcWindow
    /\ UNCHANGED <<buffers, vadVars, noiseVars, agcEnabled, equalizerEnabled, output, ret>>

NextAgc == \E input \in EffectFrames : EffectsProcessFrame(input)

SpecAgc == InitAgc /\ [][NextAgc]_vars

\* ------------------------------------------------- frames of any length

\* a frame one sample longer than the engine's buffers
Long5 == <<100, 100, 100, 100, 100>>

\* the engine driven with frames up to one sample more than its buffers
NextAnyLength ==
    \/ Begin
    \/ End
    \/ \E input \in {Murmur2, Low1, Long5} : ProcessFrame(input)

SpecAnyLength == Init /\ [][NextAnyLength]_vars

\* ------------------------------------------------ the stages of the effects

\* AudioEffects::enableEqualizer: the equalizer flag after the call
enableEqualizer(enable) == enable

\* the effects after the constructor and AudioEffects::begin(): every stage
\* off, the gain 1.0, the biquad history zero
InitEffects ==
    /\ inputBuffer = Arr(AUDIO_FRAME_SIZE, 0)
    /\ outputBuffer = Arr(AUDIO_FRAME_SIZE, 0)
    /\ overlapBuffer = Arr(OVERLAP_SIZE, 0)
    /\ windowBuffer = HannWindow
    /\ heap = HeapBegun
    /\ fftReal = Arr(FFT_SIZE, 0)
    /\ fftImag = Arr(FFT_SIZE, 0)
    /\ magnitude = Arr(FFT_SIZE \div 2, 0)
    /\ phase = Arr(FFT_SIZE \div 2, <<ONE, 0>>)
    /\ noiseSpectrum = Arr(FFT_SIZE \div 2, NOISE_INIT)
    /\ signalSpectrum = Arr(FFT_SIZE \div 2, 0)
    /\ wienerFilter = Arr(FFT_SIZE \div 2, ONE)
    /\ vadState = 0 /\ vadCounter = 0 /\ hangoverCounter = 0
    /\ noiseFloor = NOISE_INIT
    /\ noiseEstimationMode = TRUE
    /\ noiseFrameCount = 0
    /\ energyHistory = Arr(VAD_HANGOVER_FRAMES, 0)
    /\ zcrHistory = Arr(VAD_HANGOVER_FRAMES, 0)
    /\ agcEnabled = FALSE
    /\ equalizerEnabled = FALSE
    /\ eqStates = EqIdle
    /\ agcGain = ONE
    /\ audioIn = << >>
    /\ output = Arr(AUDIO_FRAME_SIZE, 0)
    /\ effectsOut = Arr(AUDIO_FRAME_SIZE, 0)
    /\ op = "setup"
    /\ ret = TRUE
    /\ sched = TasksIdle
    /\ codec = CodecIdle
    /\ idf = IdfIdle

\* audioEffects.enableAGC(enable), between frames
EnableAGC(enable) ==
    /\ agcEnabled' = enableAGC(enable)
    /\ op' = "enableAGC"
    /\ audioIn' = << >>
    /\ UNCHANGED <<buffers, vadVars, noiseVars, agcGain, effectsOut, equalizerEnabled,
                   eqStates, output, ret, sched, codec, idf>>

\* audioEffects.enableEqualizer(enable), between frames
EnableEqualizer(enable) ==
    /\ equalizerEnabled' = enableEqualizer(enable)
    /\ op' = "enableEqualizer"
    /\ audioIn' = << >>
    /\ UNCHANGED <<buffers, vadVars, noiseVars, agcEnabled, agcGain, effectsOut,
                   eqStates, output, ret, sched, codec, idf>>

\* frames for the stages: constant amplitude 0.25 (the AGC raises its
\* gain), and a shorter one at the AGC target (the gain stays)
Half3 == <<16384, 0 - 16384, 16384>>
StageFrames == {Quarter4, Half3}

\* the gain is followed as far as MaxAgcDrift from 1.0
NextEffects ==
    \/ \E enable \in BOOLEAN : EnableAGC(enable)
    \/ \E enable \in BOOLEAN : EnableEqualizer(enable)
    \/ \E input \in StageFrames :
          EffectsProcessFrame(input) /\ Abs(agcGain' - ONE) <= MaxAgcDrift

SpecEffects == InitEffects /\ [][NextEffects]_vars

\* ------------------------------------------------------ the firmware's tasks

\* the unchanged rest when only a task moves
EngineIdle ==
    UNCHANGED <<buffers, vadVars, noiseVars, effectVars, audioIn, output, op, ret,
                codec, idf>>

\* task t goes to position to, everything else of sched as given
Goto(t, to, calls) ==
    sched' = [sched EXCEPT !.pc[t] = to, !.calls = calls]

\* loop(): processButtonEvent, BTN_EVENT_MUTE_TOGGLE
ButtonMute ==
    /\ sched' = [sched EXCEPT !.micMuted = ~sched.micMuted]
    /\ EngineIdle

\* enableMic(enable)
EnableMic(enable) ==
    /\ sched' = [sched EXCEPT !.micEnabled = enable]
    /\ EngineIdle

\* displayTask: updateBattery and updateDisplay, then the delay
DisplayTaskStep ==
    /\ Goto("display", IF sched.pc["display"] = "idle" THEN "draw" ELSE "idle", sched.calls)
    /\ EngineIdle

\* vadTask that calls into the engine as the audio task does
VadTaskStepInEngine ==
    /\ IF sched.pc["vad"] = "idle"
       THEN Goto("vad", "engine", sched.calls + 1)
       ELSE Goto("vad", "idle", sched.calls)
    /\ EngineIdle

\* vadTask: nothing but vTaskDelay(100 ms) in a loop
VadTaskStep ==
    /\ Goto("vad", IF sched.pc["vad"] = "idle" THEN "delay" ELSE "idle", sched.calls)
    /\ EngineIdle

\* audioTask: with the microphone on, i2s_read returns a frame
AudioCapture(input) ==
    /\ sched.pc["audio"] = "idle"
    /\ sched.micEnabled /\ ~sched.micMuted
    /\ Len(input) > 0
    /\ audioIn' = input
    /\ Goto("audio", "captured", 0)
    /\ UNCHANGED <<buffers, vadVars, noiseVars, effectVars, output, op, ret, codec, idf>>

\* audioTask: the call of audioProcessor.processFrame is entered
AudioEnter ==
    /\ sched.pc["audio"] = "captured"
    /\ Goto("audio", "engine", sched.calls + 1)
    /\ EngineIdle

\* audioTask: processFrame, the effects and the conversion have run; the
\* task is back in vTaskDelay
AudioLeave ==
    /\ sched.pc["audio"] = "engine"
    /\ AudioTaskBody(audioIn)
    /\ Goto("audio", "idle", sched.calls)
    /\ UNCHANGED <<codec, idf>>

\* frames the microphone delivers
CaptureFrames == {Quiet3, Silence4}

NextSched ==
    \/ ButtonMute
    \/ \E enable \in BOOLEAN : EnableMic(enable)
    \/ DisplayTaskStep
    \/ VadTaskStep
    \/ \E input \in CaptureFrames : AudioCapture(input)
    \/ AudioEnter
    \/ AudioLeave

SpecSched == InitTask /\ [][NextSched]_vars

\* ------------------------------------------------------------ the buttons

\* BUTTON_DEBOUNCE_MS and BUTTON_LONG_PRESS_MS in polls of updateButtons
\* (50 ms and 1000 ms in the source, polled every 10 ms or more)
BUTTON_DEBOUNCE_MS == 1
BUTTON_LONG_PRESS_MS == 3

\* xQueueCreate(10, sizeof(button_event_t))
QUEUE_LENGTH == 10

\* millis() is followed up to this many polls
MaxNow == 9

\* events[3] and longEvents[3]
MuteEvent == "BTN_EVENT_MUTE_TOGGLE"
MuteLongEvent == "BTN_EVENT_MUTE_LONG"

\* xQueueSend(buttonQueue, &event, 0): dropped when the queue is full
xQueueSend(queue, event) ==
    IF Len(queue) < QUEUE_LENGTH THEN Append(queue, event) ELSE queue

\* the release branch of updateButtons: the queue after the event for a
\* press of now - pressTime
ReleaseSends(b, queue, now) ==
    IF now - b.pressTime > BUTTON_DEBOUNCE_MS
    THEN IF now - b.pressTime > BUTTON_LONG_PRESS_MS
         THEN xQueueSend(queue, MuteLongEvent)
         ELSE xQueueSend(queue, MuteEvent)
    ELSE queue

\* one pass of the loop body of updateButtons for the mute button, with the
\* pin read as currentState at time now: the button record and the queue left
updateButtons(b, queue, currentState, now) ==
    LET pressing == currentState /\ ~b.lastPressed
        b1 == IF pressing
              THEN [b EXCEPT !.pressTime = now, !.pressed = TRUE, !.longPressed = FALSE]
              ELSE b
        releasing == ~currentState /\ b1.lastPressed
        q2 == IF releasing THEN ReleaseSends(b1, queue, now) ELSE queue
        b2 == IF releasing THEN [b1 EXCEPT !.releaseTime = now, !.pressed = FALSE] ELSE b1
        long == /\ currentState /\ b2.pressed /\ ~b2.longPressed
                /\ now - b2.pressTime > BUTTON_LONG_PRESS_MS
        q3 == IF long THEN xQueueSend(q2, MuteLongEvent) ELSE q2
        b3 == IF long THEN [b2 EXCEPT !.longPressed = TRUE] ELSE b2
    IN  [button |-> [b3 EXCEPT !.lastPressed = currentState], queue |-> q3]

\* loop(): xQueueReceive and processButtonEvent for the mute events.
\* BTN_EVENT_MUTE_TOGGLE toggles micMuted, BTN_EVENT_MUTE_LONG calls
\* sendTeamsMuteCommand
LoopReceive ==
    /\ sched.pc["loop"] = "idle"
    /\ sched' =
         IF sched.queue = << >> THEN [sched EXCEPT !.pc["loop"] = "update"]
         ELSE IF Head(sched.queue) = MuteEvent
         THEN [sched EXCEPT !.pc["loop"] = "update", !.queue = Tail(@),
                            !.micMuted = ~@]
         ELSE [sched EXCEPT !.pc["loop"] = "update", !.queue = Tail(@),
                            !.teamsCommands = @ + 1]
    /\ EngineIdle

\* loop(): updateButtons() and the delay, elapsed polls after the last pass,
\* the mute pin read as currentState
LoopUpdateButtons(currentState, elapsed) ==
    /\ sched.pc["loop"] = "update"
    /\ sched.now + elapsed <= MaxNow
    /\ \E r \in {updateButtons(sched.button, sched.queue, currentState,
                               sched.now + elapsed)} :
          sched' = [sched EXCEPT !.pc["loop"] = "idle", !.now = @ + elapsed,
                                 !.button = r.button, !.queue = r.queue]
    /\ EngineIdle

NextButtons ==
    \/ LoopReceive
    \/ \E currentState \in BOOLEAN : \E elapsed \in 1 .. 2 :
          LoopUpdateButtons(currentState, elapsed)

SpecButtons == InitTask /\ [][NextButtons]_vars

\* ------------------------------- analysis and reconstruction as functions

\* the length of the transform buffers the engine holds
TransformSize == Cardinality(DOMAIN fftReal)

\* sample values of the 8-point frames
Eighths == {0 - (ONE \div 8), 0, ONE \div 8}

\* an engine whose transform buffers are 8 points long (so that bins with a
\* non-zero imaginary part exist below the Nyquist bin), holding a real
\* frame in fftReal and zeros in fftImag, as the copy and the window at the
\* head of the spectral path leave them
InitSpectrum ==
    /\ inputBuffer = Arr(AUDIO_FRAME_SIZE, 0)
    /\ outputBuffer = Arr(AUDIO_FRAME_SIZE, 0)
    /\ overlapBuffer = Arr(OVERLAP_SIZE, 0)
    /\ windowBuffer = HannWindow
    /\ heap = HeapBegun
    /\ fftReal \in [0 .. 7 -> Eighths]
    /\ fftImag = Arr(8, 0)
    /\ magnitude = Arr(4, 0)
    /\ phase = Arr(4, <<ONE, 0>>)
    /\ noiseSpectrum = Arr(4, NOISE_INIT)
    /\ signalSpectrum = Arr(4, 0)
    /\ wienerFilter = Arr(4, ONE)
    /\ vadState = 0 /\ vadCounter = 0 /\ hangoverCounter = 0
    /\ noiseFloor = NOISE_INIT
    /\ noiseEstimationMode \in BOOLEAN
    /\ noiseFrameCount = 0
    /\ energyHistory = Arr(VAD_HANGOVER_FRAMES, 0)
    /\ zcrHistory = Arr(VAD_HANGOVER_FRAMES, 0)
    /\ agcEnabled = FALSE
    /\ equalizerEnabled = FALSE
    /\ eqStates = EqIdle
    /\ agcGain = ONE
    /\ audioIn = << >>
    /\ output = Arr(AUDIO_FRAME_SIZE, 0)
    /\ effectsOut = Arr(AUDIO_FRAME_SIZE, 0)
    /\ op = "begin"
    /\ ret = TRUE
    /\ sched = TasksIdle
    /\ codec = CodecIdle
    /\ idf = IdfIdle

\* what the stages below leave alone
SpectrumRest ==
    UNCHANGED <<inputBuffer, outputBuffer, overlapBuffer, windowBuffer, signalSpectrum,
                heap, vadVars, noiseFloor, noiseEstimationMode, effectVars, audioIn,
                output, ret, sched, codec, idf>>

\* fft(fftReal, fftImag, frameSize)
StageFft ==
    /\ op = "begin"
    /\ \E c \in {fft([re |-> fftReal, im |-> fftImag], TransformSize)} :
          /\ fftReal' = c.re
          /\ fftImag' = c.im
    /\ op' = "fft"
    /\ UNCHANGED <<magnitude, phase, wienerFilter, noiseSpectrum, noiseFrameCount>>
    /\ SpectrumRest

\* computeMagnitudePhase(fftReal, fftImag, magnitude, phase, frameSize / 2)
StageMagnitudePhase ==
    /\ op = "fft"
    /\ magnitude' = computeMagnitude([re |-> fftReal, im |-> fftImag], TransformSize \div 2)
    /\ phase' = computePhase([re |-> fftReal, im |-> fftImag], TransformSize \div 2)
    /\ op' = "computeMagnitudePhase"
    /\ UNCHANGED <<fftReal, fftImag, wienerFilter, noiseSpectrum, noiseFrameCount>>
    /\ SpectrumRest

\* if (vadState == 0 && noiseEstimationMode) updateNoiseSpectrum(magnitude)
StageNoise ==
    /\ op = "computeMagnitudePhase"
    /\ IF NoiseUpdateDue(vadState, noiseEstimationMode)
       THEN /\ noiseSpectrum' = updateNoiseSpectrum(noiseSpectrum, magnitude)
            /\ noiseFrameCount' = (noiseFrameCount + 1) % 65536
       ELSE UNCHANGED <<noiseSpectrum, noiseFrameCount>>
    /\ op' = "updateNoiseSpectrum"
    /\ UNCHANGED <<fftReal, fftImag, magnitude, phase, wienerFilter>>
    /\ SpectrumRest

\* StageFilter that also clears the phase buffer
StageFilterClearsPhase ==
    /\ op = "updateNoiseSpectrum"
    /\ \E gain \in {computeWienerFilter(magnitude, noiseSpectrum)} :
          /\ wienerFilter' = gain
          /\ magnitude' = [i \in DOMAIN magnitude |-> FMul(magnitude[i], gain[i])]
    /\ phase' = [i \in DOMAIN phase |-> <<ONE, 0>>]
    /\ op' = "applyFilter"
    /\ UNCHANGED <<fftReal, fftImag, noiseSpectrum, noiseFrameCount>>
    /\ SpectrumRest

\* computeWienerFilter(magnitude, noiseSpectrum, wienerFilter) and
\* magnitude[i] *= wienerFilter[i]
StageFilter ==
    /\ op = "updateNoiseSpectrum"
    /\ \E gain \in {computeWienerFilter(magnitude, noiseSpectrum)} :
          /\ wienerFilter' = gain
          /\ magnitude' = [i \in DOMAIN magnitude |-> FMul(magnitude[i], gain[i])]
    /\ op' = "applyFilter"
    /\ UNCHANGED <<fftReal, fftImag, phase, noiseSpectrum, noiseFrameCount>>
    /\ SpectrumRest

\* computeRealImag(magnitude, phase, fftReal, fftImag, frameSize / 2)
StageRealImag ==
    /\ op = "applyFilter"
    /\ \E c \in {computeRealImag(magnitude, phase, [re |-> fftReal, im |-> fftImag],
                                 TransformSize \div 2)} :
          /\ fftReal' = c.re
          /\ fftImag' = c.im
    /\ op' = "computeRealImag"
    /\ UNCHANGED <<magnitude, phase, wienerFilter, noiseSpectrum, noiseFrameCount>>
    /\ SpectrumRest

NextSpectrum ==
    StageFft \/ StageMagnitudePhase \/ StageNoise \/ StageFilter \/ StageRealImag

SpecSpectrum == InitSpectrum /\ [][NextSpectrum]_vars

\* --------------------------------------------------- the codec and the bus

\* the status register is followed through this many changes
MaxChanges == 3

\* what a step of these contexts leaves alone
CodecRest ==
    UNCHANGED <<buffers, vadVars, noiseVars, effectVars, audioIn, output, op, ret,
                sched, idf>>

\* (status & 0x01) != 0
Connected(status) == status % 2 = 1

\* QCC5124Control::processIncomingData, after its readRegister has returned
\* currentStatus
processIncomingData(c, currentStatus) ==
    IF currentStatus # c.lastStatus
    THEN LET wasConnected == c.isConnected
             isConnected == Connected(currentStatus)
         IN  [c EXCEPT !.isConnected = isConnected,
                       !.callbacks =
                           IF isConnected /\ ~wasConnected THEN Append(@, "CONNECTED")
                           ELSE IF ~isConnected /\ wasConnected
                           THEN Append(@, "DISCONNECTED")
                           ELSE @,
                       !.lastStatus = currentStatus]
    ELSE c

\* QCC5124Control::getConnectionStatus with the register read as status
getConnectionStatus(c, status) == [c EXCEPT !.isConnected = Connected(status)]

\* QCC5124Control::disconnect with writeRegister returning result
disconnect(c, result) == IF result THEN [c EXCEPT !.isConnected = FALSE] ELSE c

\* the codec chip changes its status register; a change is made once
\* processIncomingData has seen the one before
StatusChange(status) ==
    /\ status # codec.status
    /\ codec.lastStatus = codec.status
    /\ codec.changes < MaxChanges
    /\ codec' = [codec EXCEPT !.status = status, !.changes = @ + 1]
    /\ CodecRest

\* setup(): the three xTaskCreate calls; the tasks can run from here on
SetupCreateTasks ==
    /\ codec.pc["setup"] = "init"
    /\ codec' = [codec EXCEPT !.pc = [@ EXCEPT !["setup"] = "tasks", !["display"] = "idle",
                                               !["audio"] = "idle"]]
    /\ CodecRest

\* setup(): buttonQueue and i2cMutex are created
SetupCreateMutex ==
    /\ codec.pc["setup"] = "tasks"
    /\ codec' = [codec EXCEPT !.pc["setup"] = "sync", !.i2cMutex = "free"]
    /\ CodecRest

\* setup(): the initial updateDisplay() begins, the mutex not taken
SetupUpdateDisplay ==
    /\ codec.pc["setup"] = "sync"
    /\ codec' = [codec EXCEPT !.pc["setup"] = "draw", !.onBus = @ \cup {"setup"}]
    /\ CodecRest

\* setup(): updateDisplay() returns (getConnectionStatus and display.display()
\* have run) and loop() takes over the task
SetupReturn ==
    /\ codec.pc["setup"] = "draw"
    /\ codec' = [getConnectionStatus(codec, codec.status)
                   EXCEPT !.pc = [@ EXCEPT !["setup"] = "done", !["loop"] = "idle"],
                          !.onBus = @ \ {"setup"}]
    /\ CodecRest

\* displayTask: xSemaphoreTake(i2cMutex, 100 ms). On the NULL handle the
\* call stops the firmware (the assertion of the queue handle, or the access
\* through it) and the chip starts again; a mutex held elsewhere times out
DisplayTake ==
    /\ codec.pc["display"] = "idle"
    /\ codec' =
         IF codec.i2cMutex = "null"
         THEN [CodecIdle EXCEPT !.nullTake = TRUE, !.status = codec.status,
                                !.changes = codec.changes]
         ELSE IF codec.i2cMutex = "free"
         THEN [codec EXCEPT !.i2cMutex = "display", !.pc["display"] = "draw",
                            !.onBus = @ \cup {"display"}]
         ELSE codec
    /\ CodecRest

\* displayTask: updateDisplay() returns and the mutex is given back
DisplayGive ==
    /\ codec.pc["display"] = "draw"
    /\ codec' = [getConnectionStatus(codec, codec.status)
                   EXCEPT !.pc["display"] = "idle", !.onBus = @ \ {"display"},
                          !.i2cMutex = "free"]
    /\ CodecRest

\* audioTask: processIncomingData enters readRegister
AudioReadStatus ==
    /\ codec.pc["audio"] = "idle"
    /\ codec' = [codec EXCEPT !.pc["audio"] = "read", !.onBus = @ \cup {"audio"}]
    /\ CodecRest

\* audioTask: readRegister returns the register
AudioReadDone ==
    /\ codec.pc["audio"] = "read"
    /\ codec' = [codec EXCEPT !.pc["audio"] = "process", !.onBus = @ \ {"audio"},
                              !.currentStatus = codec.status]
    /\ CodecRest

\* audioTask: the rest of processIncomingData
AudioProcessStatus ==
    /\ codec.pc["audio"] = "process"
    /\ codec' = [processIncomingData(codec, codec.currentStatus)
                   EXCEPT !.pc["audio"] = "idle"]
    /\ CodecRest

\* loop(): enableAudio(false) calls qccCodec.disconnect(), which enters
\* writeRegister
LoopDisconnect ==
    /\ codec.pc["loop"] = "idle"
    /\ codec' = [codec EXCEPT !.pc["loop"] = "write", !.onBus = @ \cup {"loop"}]
    /\ CodecRest

\* loop(): writeRegister returns result
LoopDisconnectDone(result) ==
    /\ codec.pc["loop"] = "write"
    /\ codec' = [disconnect(codec, result)
                   EXCEPT !.pc["loop"] = "idle", !.onBus = @ \ {"loop"}]
    /\ CodecRest

NextCodec ==
    \/ \E status \in 0 .. 3 : StatusChange(status)
    \/ SetupCreateTasks
    \/ SetupCreateMutex
    \/ SetupUpdateDisplay
    \/ SetupReturn
    \/ DisplayTake
    \/ DisplayGive
    \/ AudioReadStatus
    \/ AudioReadDone
    \/ AudioProcessStatus
    \/ LoopDisconnect
    \/ \E result \in BOOLEAN : LoopDisconnectDone(result)

SpecCodec == InitTask /\ [][NextCodec]_vars

\* ------------------------------------------------- the Bluetooth manager

\* the queue of SYSTEM_QUEUE_SIZE (10) events, scaled
SYSTEM_QUEUE_SIZE == 2

\* the manager's calls and the stack's callbacks are followed this far
MaxConnects == 2

\* what a step of src/main leaves alone
IdfRest ==
    UNCHANGED <<buffers, vadVars, noiseVars, effectVars, audioIn, output, op, ret,
                sched, codec>>

\* bt_send_system_event: xQueueSend with no wait on a queue that exists; a
\* full queue drops the event
bt_send_system_event(queue, type) ==
    IF queue.handle /\ Len(queue.items) < SYSTEM_QUEUE_SIZE
    THEN [queue EXCEPT !.items = Append(@, type)]
    ELSE queue

\* bluetooth_manager_connect, esp_a2dp_sink_connect returning ESP_OK or not
bluetooth_manager_connect(bt, ok) ==
    IF ~bt.bt_initialized THEN [bt EXCEPT !.ret = "ESP_ERR_INVALID_STATE"]
    ELSE IF ok
    THEN [bt EXCEPT !.bt_state = "CONNECTING", !.connects = @ + 1, !.ret = "ESP_OK"]
    ELSE [bt EXCEPT !.bt_state = "DISCOVERABLE", !.connects = @ + 1, !.ret = "ESP_FAIL"]

\* bluetooth_manager_disconnect: asks the stack to disconnect; the states
\* change when the stack's event arrives
bluetooth_manager_disconnect(bt, ok) ==
    IF ~bt.bt_initialized \/ ~bt.is_connected THEN [bt EXCEPT !.ret = "ESP_ERR_INVALID_STATE"]
    ELSE [bt EXCEPT !.ret = IF ok THEN "ESP_OK" ELSE "ESP_FAIL"]

\* bt_load_paired_devices: stored, nvs_get_blob finds "last_device"
bt_load_paired_devices(bt, stored, BT_AUTO_RECONNECT, ok) ==
    IF stored /\ BT_AUTO_RECONNECT THEN bluetooth_manager_connect(bt, ok) ELSE bt

\* bluetooth_manager_init with every call into the stack returning ESP_OK
bluetooth_manager_init(bt, stored, BT_AUTO_RECONNECT, ok) ==
    [bt_load_paired_devices(bt, stored, BT_AUTO_RECONNECT, ok)
       EXCEPT !.bt_initialized = TRUE, !.bt_state = "DISCOVERABLE", !.ret = "ESP_OK"]

\* bluetooth_manager_deinit; esp_a2dp_sink_deinit takes the link down and
\* no callback is made after it
bluetooth_manager_deinit(bt, ok) ==
    IF ~bt.bt_initialized THEN [bt EXCEPT !.ret = "ESP_OK"]
    ELSE [(IF bt.bt_state \in {"CONNECTED", "PLAYING"}
           THEN bluetooth_manager_disconnect(bt, ok) ELSE bt)
            EXCEPT !.bt_initialized = FALSE, !.bt_state = "IDLE", !.ret = "ESP_OK",
                   !.link = "down"]

\* bt_a2dp_event_handler, ESP_A2DP_CONNECTION_STATE_EVT and
\* ESP_A2DP_AUDIO_STATE_EVT: the manager's state and the event it sends
bt_a2dp_event_handler(bt, event) ==
    CASE event = "CONNECTED" ->
           [bt |-> [bt EXCEPT !.is_connected = TRUE, !.bt_state = "CONNECTED"],
            send |-> "BT_CONNECTED"]
      [] event = "DISCONNECTED" ->
           [bt |-> [bt EXCEPT !.is_connected = FALSE, !.bt_state = "DISCOVERABLE"],
            send |-> "BT_DISCONNECTED"]
      [] event = "STARTED" ->
           [bt |-> [bt EXCEPT !.bt_state = "PLAYING"], send |-> "AUDIO_PLAY"]
      [] event = "STOPPED" ->
           [bt |-> [bt EXCEPT !.bt_state = "CONNECTED"], send |-> "AUDIO_PAUSE"]

\* the link after the stack's event, for the events the link allows: a
\* connection comes up from down, audio starts on a connection and stops
\* while streaming, a disconnection ends either
LinkAfter(link, event) ==
    CASE event = "CONNECTED" /\ link = "down" -> "up"
      [] event = "DISCONNECTED" /\ link # "down" -> "down"
      [] event = "STARTED" /\ link = "up" -> "streaming"
      [] event = "STOPPED" /\ link = "streaming" -> "up"
      [] OTHER -> "none"

A2dpEvents == {"CONNECTED", "DISCONNECTED", "STARTED", "STOPPED"}

\* system_init: bluetooth_manager_init(), with or without a last device in
\* NVS and with BT_AUTO_RECONNECT set or not in the build
BluetoothManagerInit(stored, BT_AUTO_RECONNECT, ok) ==
    /\ ~idf.bt.bt_initialized
    /\ idf.bt.connects < MaxConnects
    /\ idf' = [idf EXCEPT !.bt = [bluetooth_manager_init(@, stored, BT_AUTO_RECONNECT, ok)
                                   EXCEPT !.found = [stored |-> stored,
                                                     auto |-> BT_AUTO_RECONNECT,
                                                     ok |-> ok]],
                          !.system_event_queue = [handle |-> TRUE, items |-> << >>]]
    /\ IdfRest

BluetoothManagerConnect(ok) ==
    /\ idf.bt.connects < MaxConnects
    /\ idf' = [idf EXCEPT !.bt = bluetooth_manager_connect(@, ok)]
    /\ IdfRest

BluetoothManagerDisconnect(ok) ==
    /\ idf' = [idf EXCEPT !.bt = bluetooth_manager_disconnect(@, ok)]
    /\ IdfRest

BluetoothManagerDeinit(ok) ==
    /\ idf' = [idf EXCEPT !.bt = bluetooth_manager_deinit(@, ok),
                          !.system_event_queue =
                              IF idf.bt.bt_initialized
                              THEN [handle |-> FALSE, items |-> << >>] ELSE @]
    /\ IdfRest

\* the stack calls bt_a2dp_event_handler; it does so between
\* esp_a2dp_register_callback and esp_a2dp_sink_deinit
A2dpEvent(event) ==
    /\ idf.bt.bt_initialized
    /\ LinkAfter(idf.bt.link, event) # "none"
    /\ \E r \in {bt_a2dp_event_handler(idf.bt, event)} :
          idf' = [idf EXCEPT !.bt = [r.bt EXCEPT !.link = LinkAfter(idf.bt.link, event)],
                             !.system_event_queue = bt_send_system_event(@, r.send)]
    /\ IdfRest

NextBt ==
    \/ \E stored, BT_AUTO_RECONNECT, ok \in BOOLEAN :
          BluetoothManagerInit(stored, BT_AUTO_RECONNECT, ok)
    \/ \E ok \in BOOLEAN : BluetoothManagerConnect(ok)
    \/ \E ok \in BOOLEAN : BluetoothManagerDisconnect(ok)
    \/ \E ok \in BOOLEAN : BluetoothManagerDeinit(ok)
    \/ \E event \in A2dpEvents : A2dpEvent(event)

SpecBt == InitTask /\ [][NextBt]_vars

\* ------------------------------------------------------ the power manager

\* the thresholds of the build configuration and the voltages read, in
\* steps: 0 is below POWER_SHUTDOWN_THRESHOLD_MV, 1 below
\* POWER_LOW_BATTERY_THRESHOLD_MV, 2 and 3 at and above it
POWER_SHUTDOWN_THRESHOLD_MV == 1
POWER_LOW_BATTERY_THRESHOLD_MV == 2
Voltages == 0 .. 3

\* the tick count is followed to MaxTick, timeouts up to MaxTimeout are set,
\* and MaxLowReadings low readings in a row are taken
MaxTick == 7
MaxTimeout == 3
MaxLowReadings == 3

\* power_update_battery_info if it cleared is_low on every reading
power_update_battery_infoClearsLow(battery_info, voltage_mv) ==
    [voltage_mv |-> voltage_mv,
     is_low |-> FALSE,
     is_critical |-> IF voltage_mv >= POWER_SHUTDOWN_THRESHOLD_MV THEN FALSE
                     ELSE battery_info.is_critical]

\* power_update_battery_info with power_read_battery_voltage returning
\* voltage_mv
power_update_battery_info(battery_info, voltage_mv) ==
    [voltage_mv |-> voltage_mv,
     is_low |-> IF voltage_mv >= POWER_LOW_BATTERY_THRESHOLD_MV THEN FALSE
                ELSE battery_info.is_low,
     is_critical |-> IF voltage_mv >= POWER_SHUTDOWN_THRESHOLD_MV THEN FALSE
                     ELSE battery_info.is_critical]

\* power_manager_init: both timers created and started, the first reading
\* taken
power_manager_init(p, voltage_mv) ==
    [p EXCEPT !.sleep_timer = [active |-> TRUE, expiry |-> p.now + p.activity_timeout_ms],
              !.battery_info = power_update_battery_info(@, voltage_mv),
              !.lowReadings = IF voltage_mv < POWER_LOW_BATTERY_THRESHOLD_MV THEN 1 ELSE 0,
              !.lowEvents = 0,
              !.power_initialized = TRUE,
              !.power_state = "ACTIVE",
              !.last_activity_time = p.now]

\* power_manager_shutdown: esp_deep_sleep_start() does not return
power_manager_shutdown(p) ==
    [p EXCEPT !.power_state = "SHUTDOWN", !.sleep_timer.active = FALSE]

\* power_battery_check_callback: the reading, then the low-battery check and
\* the critical check. low: power_send_low_battery_event was called
power_battery_check_callback(p, voltage_mv) ==
    LET info == power_update_battery_info(p.battery_info, voltage_mv)
        low == info.voltage_mv < POWER_LOW_BATTERY_THRESHOLD_MV /\ ~info.is_low
        critical == info.voltage_mv < POWER_SHUTDOWN_THRESHOLD_MV /\ ~info.is_critical
        q == [p EXCEPT !.battery_info = [info EXCEPT !.is_low = @ \/ low,
                                                     !.is_critical = @ \/ critical],
                       !.lowReadings =
                           IF voltage_mv < POWER_LOW_BATTERY_THRESHOLD_MV THEN @ + 1 ELSE 0,
                       !.lowEvents =
                           IF voltage_mv >= POWER_LOW_BATTERY_THRESHOLD_MV THEN 0
                           ELSE IF low THEN @ + 1 ELSE @]
    IN  [power |-> IF critical THEN power_manager_shutdown(q) ELSE q, low |-> low]

\* power_sleep_timer_callback: sleep, whether SYSTEM_EVENT_POWER_SLEEP is sent
power_sleep_timer_callback(p) ==
    [power |-> [p EXCEPT !.sleep_timer.active = FALSE,
                         !.sleeps = IF p.power_state = "ACTIVE" THEN @ + 1 ELSE @],
     sleep |-> p.power_state = "ACTIVE"]

\* power_manager_update
power_manager_update(p) ==
    IF /\ p.power_initialized
       /\ p.now - p.last_activity_time > p.activity_timeout_ms
       /\ p.power_state = "ACTIVE"
    THEN [p EXCEPT !.power_state = "IDLE"]
    ELSE p

\* power_manager_set_activity_timeout: the timer is stopped, its period
\* changed and the timer started again
power_manager_set_activity_timeout(p, timeout_ms) ==
    IF ~p.power_initialized THEN p
    ELSE [p EXCEPT !.activity_timeout_ms = timeout_ms,
                   !.sleep_timer = [active |-> TRUE, expiry |-> p.now + timeout_ms]]

\* power_manager_activity_detected
power_manager_activity_detected(p) ==
    IF ~p.power_initialized THEN p
    ELSE [p EXCEPT !.last_activity_time = p.now,
                   !.sleep_timer = [active |-> TRUE,
                                    expiry |-> p.now + p.activity_timeout_ms],
                   !.power_state = IF @ \in {"SLEEP", "IDLE"} THEN "ACTIVE" ELSE @]

\* power_manager_enter_sleep, esp_light_sleep_start() returning ESP_OK or
\* not. wake: SYSTEM_EVENT_POWER_WAKE is sent
power_manager_enter_sleep(p, ok) ==
    IF ~p.power_initialized THEN [power |-> p, wake |-> FALSE]
    ELSE IF ~ok THEN [power |-> [p EXCEPT !.power_state = "ACTIVE"], wake |-> FALSE]
    ELSE [power |-> [p EXCEPT !.power_state = "ACTIVE", !.last_activity_time = p.now],
          wake |-> TRUE]

\* xQueueSend(system_event_queue, &event, 0) when sent, the queue as it is
\* otherwise
SendIf(queue, sent, type) == IF sent THEN bt_send_system_event(queue, type) ELSE queue

\* audio_manager_init: the ring buffer and the task are created and the data
\* callback is registered
audio_manager_init(a) ==
    [a EXCEPT !.audio_ringbuf = TRUE,
              !.ringbuf = [exists |-> TRUE, items |-> 0, out |-> FALSE],
              !.task = "receive",
              !.audio_initialized = TRUE,
              !.state = "IDLE"]

\* audio_manager_start, i2s_start returning ESP_OK
audio_manager_start(a) ==
    IF ~a.audio_initialized THEN a ELSE [a EXCEPT !.state = "PLAYING"]

\* audio_manager_stop, i2s_stop returning ESP_OK
audio_manager_stop(a) ==
    IF ~a.audio_initialized THEN a ELSE [a EXCEPT !.state = "STOPPED"]

\* system_init(): power_manager_init(), audio_manager_init() and (the UI
\* apart) bluetooth_manager_init(), every call returning ESP_OK
SystemInit(voltage_mv) ==
    /\ ~idf.power.power_initialized /\ ~idf.bt.bt_initialized
    /\ idf' = [idf EXCEPT !.power = power_manager_init(@, voltage_mv),
                          !.audio = audio_manager_init(@),
                          !.bt = bluetooth_manager_init(@, FALSE, FALSE, TRUE),
                          !.system_event_queue = [handle |-> TRUE, items |-> << >>]]
    /\ IdfRest

\* a tick of the FreeRTOS clock; the timer task runs a callback in the tick
\* its timer expires
Tick ==
    /\ idf.power.now < MaxTick
    /\ idf.power.power_state # "SHUTDOWN"
    /\ ~(idf.power.sleep_timer.active /\ idf.power.now >= idf.power.sleep_timer.expiry)
    /\ idf' = [idf EXCEPT !.power.now = @ + 1]
    /\ IdfRest

\* the timer task: the one-shot sleep timer expires
SleepTimerCallback ==
    /\ idf.power.sleep_timer.active
    /\ idf.power.now >= idf.power.sleep_timer.expiry
    /\ \E r \in {power_sleep_timer_callback(idf.power)} :
          idf' = [idf EXCEPT !.power = r.power,
                             !.system_event_queue = SendIf(@, r.sleep, "POWER_SLEEP")]
    /\ IdfRest

\* the timer task: the periodic battery timer expires
BatteryCheckCallback(voltage_mv) ==
    /\ idf.power.power_initialized
    /\ idf.power.power_state # "SHUTDOWN"
    /\ idf.power.lowReadings < MaxLowReadings
    /\ \E r \in {power_battery_check_callback(idf.power, voltage_mv)} :
          idf' = [idf EXCEPT !.power = r.power,
                             !.system_event_queue = SendIf(@, r.low, "POWER_LOW")]
    /\ IdfRest

\* system_main_task: its periodic power_manager_update()
PowerManagerUpdate ==
    /\ idf.power.power_state # "SHUTDOWN"
    /\ idf' = [idf EXCEPT !.power = power_manager_update(@)]
    /\ IdfRest

\* a timer is started when it expires by MaxTick
PowerManagerSetActivityTimeout(timeout_ms) ==
    /\ idf.power.power_state # "SHUTDOWN"
    /\ idf.power.now + timeout_ms <= MaxTick
    /\ idf' = [idf EXCEPT !.power = power_manager_set_activity_timeout(@, timeout_ms)]
    /\ IdfRest

\* ui_handle_button_press: power_manager_activity_detected()
PowerManagerActivityDetected ==
    /\ idf.power.power_state # "SHUTDOWN"
    /\ idf.power.now + idf.power.activity_timeout_ms <= MaxTick
    /\ idf' = [idf EXCEPT !.power = power_manager_activity_detected(@)]
    /\ IdfRest

NextPower ==
    \/ \E voltage_mv \in Voltages : SystemInit(voltage_mv)
    \/ Tick
    \/ SleepTimerCallback
    \/ \E voltage_mv \in Voltages : BatteryCheckCallback(voltage_mv)
    \/ PowerManagerUpdate
    \/ \E timeout_ms \in 1 .. MaxTimeout : PowerManagerSetActivityTimeout(timeout_ms)
    \/ PowerManagerActivityDetected

SpecPower == InitTask /\ [][NextPower]_vars

\* the clock goes on and the timer task runs the callback of an expired
\* timer
SpecPowerLive == SpecPower /\ WF_vars(Tick) /\ WF_vars(SleepTimerCallback)

\* --------------------------------------------------------- the system task

\* system_event_handler(event), esp_light_sleep_start() returning ESP_OK or
\* not when the event is SYSTEM_EVENT_POWER_SLEEP
system_event_handler(f, event, ok) ==
    CASE event = "BT_CONNECTED" -> [f EXCEPT !.system_state = "CONNECTED"]
      [] event = "BT_DISCONNECTED" ->
           [f EXCEPT !.system_state = "READY", !.audio = audio_manager_stop(@)]
      [] event = "AUDIO_PLAY" -> [f EXCEPT !.system_state = "PLAYING"]
      [] event = "AUDIO_PAUSE" -> [f EXCEPT !.system_state = "CONNECTED"]
      [] event = "POWER_SLEEP" ->
           LET r == power_manager_enter_sleep(f.power, ok)
           IN  [f EXCEPT !.system_state = "SLEEP", !.power = r.power,
                         !.system_event_queue = SendIf(@, r.wake, "POWER_WAKE")]
      [] event = "POWER_WAKE" -> [f EXCEPT !.system_state = "READY"]
      [] OTHER -> f

\* system_main_task: the subsystems are ready
MainStart ==
    /\ idf.main.pc = "boot"
    /\ idf.bt.bt_initialized
    /\ idf' = [idf EXCEPT !.system_state = "READY", !.main.pc = "loop"]
    /\ IdfRest

\* system_main_task: xQueueReceive returns an event or times out
MainReceive ==
    /\ idf.main.pc = "loop"
    /\ idf' = IF idf.system_event_queue.items = << >>
              THEN [idf EXCEPT !.main.pc = "maintain"]
              ELSE [idf EXCEPT !.main = [pc |-> "handle",
                                         event |-> Head(idf.system_event_queue.items)],
                               !.system_event_queue.items = Tail(@)]
    /\ IdfRest

\* system_main_task: system_event_handler(event)
MainHandle(ok) ==
    /\ idf.main.pc = "handle"
    /\ idf' = [system_event_handler(idf, idf.main.event, ok)
                 EXCEPT !.main = [pc |-> "maintain", event |-> "none"]]
    /\ IdfRest

\* system_main_task: power_manager_update() and the check of the battery
\* voltage, which shuts the system down
MainMaintain ==
    /\ idf.main.pc = "maintain"
    /\ idf' = IF idf.power.battery_info.voltage_mv < POWER_SHUTDOWN_THRESHOLD_MV
              THEN [idf EXCEPT !.system_state = "ERROR", !.main.pc = "off",
                               !.power = power_manager_shutdown(power_manager_update(@)),
                               !.bt = bluetooth_manager_disconnect(@, TRUE)]
              ELSE [idf EXCEPT !.main.pc = "loop", !.power = power_manager_update(@)]
    /\ IdfRest

\* the UI: ui_handle_button_press for the play button
ButtonPress ==
    /\ idf.power.power_initialized
    /\ idf.power.power_state # "SHUTDOWN"
    /\ idf.power.now + idf.power.activity_timeout_ms <= MaxTick
    /\ idf' = [idf EXCEPT !.power = power_manager_activity_detected(@),
                          !.system_event_queue = bt_send_system_event(@, "BUTTON_PLAY")]
    /\ IdfRest

\* the clock reaches the expiry of the sleep timer and the timer task runs
\* its callback
SleepTimerExpires ==
    /\ idf.power.sleep_timer.active
    /\ idf.power.now <= idf.power.sleep_timer.expiry
    /\ \E r \in {power_sleep_timer_callback(
                     [idf.power EXCEPT !.now = idf.power.sleep_timer.expiry])} :
          idf' = [idf EXCEPT !.power = r.power,
                             !.system_event_queue = SendIf(@, r.sleep, "POWER_SLEEP")]
    /\ IdfRest

\* the stack's callbacks while the system runs
SystemA2dpEvent(event) == idf.main.pc # "off" /\ A2dpEvent(event)

NextSystem ==
    \/ \E voltage_mv \in {0, 3} : SystemInit(voltage_mv)
    \/ MainStart
    \/ MainReceive
    \/ \E ok \in BOOLEAN : MainHandle(ok)
    \/ MainMaintain
    \/ ButtonPress
    \/ \E event \in A2dpEvents : SystemA2dpEvent(event)
    \/ SleepTimerExpires

SpecSystem == InitTask /\ [][NextSystem]_vars

\* ------------------------------------------------------ the audio manager

\* the ring buffer holds RingBlocks blocks (AUDIO_BUFFER_SIZE * 4 bytes),
\* and MaxBlocks blocks are delivered
RingBlocks == 2
MaxBlocks == 3

\* the blocks the A2DP callback has put into the ring buffer and the task
\* has taken out
Delivered(a) == a.ringbuf.items + (IF a.ringbuf.out THEN 1 ELSE 0) + a.written + a.discarded

\* audio_data_callback and audio_manager_write_data: the two checks of
\* audio_initialized and audio_ringbuf
CallbackCheck(a) ==
    IF a.audio_initialized /\ a.audio_ringbuf THEN [a EXCEPT !.callback = "send"] ELSE a

\* audio_manager_write_data: xRingbufferSend(audio_ringbuf, ...). A full
\* buffer drops the block after the wait; a deleted one, or the NULL handle,
\* is a use of the buffer after its delete, which either stops the firmware
\* (traps: the statics are as at power-on) or goes unnoticed
CallbackSend(a, traps) ==
    IF ~a.audio_ringbuf \/ ~a.ringbuf.exists
    THEN IF traps THEN [IdfIdle.audio EXCEPT !.afterDelete = TRUE, !.lostItem = a.lostItem]
         ELSE [a EXCEPT !.callback = "idle", !.afterDelete = TRUE]
    ELSE [a EXCEPT !.callback = "idle",
                   !.ringbuf.items = IF @ < RingBlocks THEN @ + 1 ELSE @]

\* audio_task: xRingbufferReceive(audio_ringbuf, ...) returns an item or
\* times out
TaskReceive(a) ==
    IF ~a.audio_ringbuf \/ ~a.ringbuf.exists THEN [a EXCEPT !.afterDelete = TRUE]
    ELSE IF a.ringbuf.items > 0
    THEN [a EXCEPT !.ringbuf = [@ EXCEPT !.items = @ - 1, !.out = TRUE], !.task = "holding"]
    ELSE a

\* audio_task: i2s_write when the state is AUDIO_STATE_PLAYING, then
\* vRingbufferReturnItem
TaskWrite(a) ==
    [a EXCEPT !.written = IF a.state = "PLAYING" THEN @ + 1 ELSE @,
              !.discarded = IF a.state = "PLAYING" THEN @ ELSE @ + 1,
              !.ringbuf.out = FALSE,
              !.task = "receive"]

\* audio_manager_deinit, statement by statement: audio_manager_stop(),
\* vTaskDelete, vRingbufferDelete, and the rest from audio_ringbuf = NULL
DeinitStep(a) ==
    CASE a.deinit = "idle" ->
           IF a.audio_initialized
           THEN [audio_manager_stop(a) EXCEPT !.deinit = "stopped"] ELSE a
      [] a.deinit = "stopped" ->
           [a EXCEPT !.deinit = "task", !.task = "deleted",
                     !.lostItem = @ \/ a.task = "holding"]
      [] a.deinit = "task" ->
           [a EXCEPT !.deinit = "ring", !.ringbuf.exists = FALSE]
      [] a.deinit = "ring" ->
           [a EXCEPT !.deinit = "idle", !.audio_ringbuf = FALSE,
                     !.audio_initialized = FALSE, !.state = "IDLE"]

\* the stack delivers a block: audio_data_callback is entered
AudioDataCallback ==
    /\ idf.audio.callback = "idle"
    /\ Delivered(idf.audio) < MaxBlocks
    /\ idf' = [idf EXCEPT !.audio = CallbackCheck(@)]
    /\ IdfRest

\* the callback reaches xRingbufferSend
AudioWriteData(traps) ==
    /\ idf.audio.callback = "send"
    /\ idf' = [idf EXCEPT !.audio = CallbackSend(@, traps)]
    /\ IdfRest

AudioTaskReceive ==
    /\ idf.audio.task = "receive"
    /\ idf' = [idf EXCEPT !.audio = TaskReceive(@)]
    /\ IdfRest

AudioTaskWrite ==
    /\ idf.audio.task = "holding"
    /\ idf' = [idf EXCEPT !.audio = TaskWrite(@)]
    /\ IdfRest

\* audio_manager_init() on its own, the first time
AudioManagerInit ==
    /\ ~idf.audio.audio_initialized
    /\ idf.audio.task = "none"
    /\ idf' = [idf EXCEPT !.audio = audio_manager_init(@)]
    /\ IdfRest

AudioManagerStart ==
    /\ idf.audio.deinit = "idle"
    /\ idf' = [idf EXCEPT !.audio = audio_manager_start(@)]
    /\ IdfRest

AudioManagerDeinit ==
    /\ idf' = [idf EXCEPT !.audio = DeinitStep(@)]
    /\ IdfRest

NextAudio ==
    \/ AudioManagerInit
    \/ AudioManagerStart
    \/ AudioManagerDeinit
    \/ AudioDataCallback
    \/ \E traps \in BOOLEAN : AudioWriteData(traps)
    \/ AudioTaskReceive
    \/ AudioTaskWrite

SpecAudio == InitTask /\ [][NextAudio]_vars

\* the system with a stream: the stack's events and blocks, the main task
\* and the audio task
NextPlayback ==
    \/ \E voltage_mv \in {3} : SystemInit(voltage_mv)
    \/ MainStart
    \/ MainReceive
    \/ \E ok \in BOOLEAN : MainHandle(ok)
    \/ MainMaintain
    \/ \E event \in A2dpEvents : SystemA2dpEvent(event)
    \/ AudioDataCallback
    \/ \E traps \in BOOLEAN : AudioWriteData(traps)
    \/ AudioTaskReceive
    \/ AudioTaskWrite

SpecPlayback == InitTask /\ [][NextPlayback]_vars

\* ------------------------------------------------------------------ claims

\* the frame k calls back was raw-active (k = 0: the frame of the last call)
RawActiveAt(k) == RawActive(energyHistory[k], zcrHistory[k])

\* a processFrame call that returned success is the step just taken
FrameDone == op' = "processFrame" /\ ret'

\* never begun, or ended: no buffer is held
Released ==
    /\ inputBuffer = Null /\ outputBuffer = Null /\ overlapBuffer = Null
    /\ windowBuffer = Null /\ fftReal = Null /\ fftImag = Null
    /\ magnitude = Null /\ phase = Null
    /\ noiseSpectrum = Null /\ signalSpectrum = Null /\ wienerFilter = Null

\* C1: in SILENCE the trigger count is below VAD_TRIGGER_FRAMES; a raw-active
\* frame in SILENCE adds one to it and makes the VAD report VOICE exactly
\* when it reaches VAD_TRIGGER_FRAMES, so that SILENCE turns into VOICE only
\* on the third raw-active frame in a row; a raw-inactive frame sets the
\* count to zero.
C1_TriggerOnThirdFrame ==
    /\ [](vadState = 0 => vadCounter < VAD_TRIGGER_FRAMES)
    /\ [][FrameDone =>
            /\ (vadState = 0 /\ RawActiveAt(0)') =>
                  /\ vadCounter' = vadCounter + 1
                  /\ (vadState' = 1) = (vadCounter' = VAD_TRIGGER_FRAMES)
            /\ (vadState = 0 /\ vadState' = 1) =>
                  /\ vadCounter = VAD_TRIGGER_FRAMES - 1
                  /\ \A k \in 0 .. (VAD_TRIGGER_FRAMES - 1) : RawActiveAt(k)'
            /\ (~RawActiveAt(0)') => vadCounter' = 0]_vars

\* C1 witness: VOICE has just been confirmed by the third raw-active frame
\* after a raw-inactive one
C1_Witness ==
    /\ op = "processFrame" /\ ret
    /\ isVoiceActive
    /\ vadCounter = VAD_TRIGGER_FRAMES
    /\ \A k \in 0 .. (VAD_TRIGGER_FRAMES - 1) : RawActiveAt(k)
    /\ ~RawActiveAt(VAD_TRIGGER_FRAMES)

\* C2: a raw-active frame loads the hangover counter with VAD_HANGOVER_FRAMES;
\* a raw-inactive frame with a positive counter decrements it and keeps the
\* VAD state; in VOICE the counter is VAD_HANGOVER_FRAMES minus the number
\* of raw-inactive frames since the last raw-active one, so VOICE lasts
\* through VAD_HANGOVER_FRAMES raw-inactive frames; the VAD leaves VOICE in
\* processFrame only on a raw-inactive frame that finds the counter at zero,
\* the one after VAD_HANGOVER_FRAMES raw-inactive frames.
C2_HangoverHoldsVoice ==
    /\ [](\A k \in 0 .. (VAD_HANGOVER_FRAMES - 1) :
            (isVoiceActive /\ RawActiveAt(k) /\ \A j \in 0 .. (k - 1) : ~RawActiveAt(j))
                => hangoverCounter = VAD_HANGOVER_FRAMES - k)
    /\ [][FrameDone =>
            /\ RawActiveAt(0)' => hangoverCounter' = VAD_HANGOVER_FRAMES
            /\ (~RawActiveAt(0)' /\ hangoverCounter > 0) =>
                  /\ hangoverCounter' = hangoverCounter - 1
                  /\ vadState' = vadState
            /\ (~RawActiveAt(0)' /\ hangoverCounter = 0) => vadState' = 0
            /\ (vadState = 1 /\ vadState' = 0) =>
                  /\ hangoverCounter = 0
                  /\ ~RawActiveAt(0)'
                  /\ \A k \in 0 .. (VAD_HANGOVER_FRAMES - 1) : ~RawActiveAt(k)]_vars

\* C2 witness: VOICE is still reported after VAD_HANGOVER_FRAMES raw-inactive
\* frames in a row, with the hangover used up
C2_Witness ==
    /\ op = "processFrame" /\ ret
    /\ isVoiceActive
    /\ hangoverCounter = 0
    /\ \A k \in 0 .. (VAD_HANGOVER_FRAMES - 1) : ~RawActiveAt(k)

\* C3: a processFrame call changes a noise-spectrum bin only if it succeeds
\* and, after its VAD update, the VAD reports SILENCE and the estimator is
\* in estimation mode.
C3_NoiseUpdateOnlyInSilence ==
    [][(op' = "processFrame" /\ noiseSpectrum' # noiseSpectrum) =>
            (ret' /\ vadState' = 0 /\ noiseEstimationMode')]_vars

\* C3 witness: a frame has moved the noise spectrum away from its initial
\* value, in SILENCE and estimation mode
C3_Witness ==
    /\ op = "processFrame" /\ ret
    /\ vadState = 0 /\ noiseEstimationMode
    /\ noiseFrameCount > 0
    /\ noiseSpectrum # Arr(FFT_SIZE \div 2, NOISE_INIT)

\* C4: the frame that confirms voice turns estimation mode off; estimation
\* mode comes back on only in a call of resetNoiseEstimation() or
\* enableNoiseSupression(true); while it is off no processFrame call changes
\* the noise spectrum, whatever the VAD state and whether or not resetVAD
\* was called.
C4_NoiseFrozenAfterVoice ==
    /\ [][(op' = "processFrame" /\ vadState = 0 /\ vadState' = 1)
              => ~noiseEstimationMode']_vars
    /\ [][(~noiseEstimationMode /\ noiseEstimationMode')
              => op' \in {"resetNoiseEstimation", "enableNoiseSupression(true)"}]_vars
    /\ [][(~noiseEstimationMode /\ op' = "processFrame")
              => noiseSpectrum' = noiseSpectrum]_vars

\* C4 witness: voice was confirmed after the noise spectrum had been
\* updated, and an all-zero frame has been processed since, in VOICE
C4_Witness ==
    /\ op = "processFrame" /\ ret
    /\ isVoiceActive /\ ~noiseEstimationMode
    /\ ~RawActiveAt(0)
    /\ audioIn = Silence4
    /\ noiseFrameCount > 0

\* C6: a successful full-size processFrame call leaves in outputBuffer the
\* windowed result (fftReal) plus the retained tail for i < OVERLAP_SIZE and
\* the windowed result alone above, and retains the last OVERLAP_SIZE
\* samples of the windowed result; begin() zeroes the retained tail, and no
\* other successful call changes it.
C6_OverlapAdd ==
    /\ [][(FrameDone /\ Len(audioIn') = FFT_SIZE) =>
            /\ \A i \in 0 .. (OVERLAP_SIZE - 1) :
                  outputBuffer'[i] = fftReal'[i] + overlapBuffer[i]
            /\ \A i \in OVERLAP_SIZE .. (FFT_SIZE - 1) :
                  outputBuffer'[i] = fftReal'[i]
            /\ \A i \in 0 .. (OVERLAP_SIZE - 1) :
                  overlapBuffer'[i] = fftReal'[FFT_SIZE - OVERLAP_SIZE + i]]_vars
    /\ [][op' = "begin" => overlapBuffer' = Arr(OVERLAP_SIZE, 0)]_vars
    /\ [][(FrameDone /\ Len(audioIn') # FFT_SIZE) => overlapBuffer' = overlapBuffer]_vars
    /\ [][op' \in {"resetVAD", "enableNoiseSupression(true)",
                   "enableNoiseSupression(false)"} => overlapBuffer' = overlapBuffer]_vars

\* C6 witness: a full-size frame has been emitted whose first sample is the
\* retained tail alone (the window is zero there) and which retained a new
\* non-zero tail
C6_Witness ==
    /\ op = "processFrame" /\ ret
    /\ Len(audioIn) = FFT_SIZE
    /\ fftReal[0] = 0 /\ outputBuffer[0] # 0
    /\ overlapBuffer[0] # 0

\* C10: processFrame returns failure exactly when the engine holds no
\* buffers, and a failing call changes neither the VAD, the noise state,
\* the buffers nor the caller's output array.
C10_FailureOnlyUninitialized ==
    [][op' = "processFrame" =>
            /\ (~ret') = Released
            /\ Released => UNCHANGED <<buffers, vadVars, noiseVars, output>>]_vars

\* C10 witness: a call has failed on an ended engine whose VAD was in the
\* middle of a run of raw-active frames
C10_Witness ==
    /\ op = "processFrame" /\ ~ret
    /\ Released
    /\ vadCounter > 0
    /\ RawActiveAt(0)

\* C5: whatever non-negative signal and noise magnitudes the bins hold,
\* signal 0 included, every gain computeWienerFilter writes is at least
\* SPECTRAL_FLOOR, which is positive.
C5_GainAtLeastFloor ==
    op = "computeWienerFilter" =>
        \A k \in DOMAIN wienerFilter :
            wienerFilter[k] >= SPECTRAL_FLOOR /\ wienerFilter[k] > 0

\* C5 witness: a bin with signal 0 got exactly the floor, next to a bin with
\* a signal far above the noise, whose gain is above the floor
C5_Witness ==
    /\ op = "computeWienerFilter"
    /\ magnitude[0] = 0 /\ wienerFilter[0] = SPECTRAL_FLOOR
    /\ magnitude[1] > noiseSpectrum[1] /\ wienerFilter[1] > SPECTRAL_FLOOR

\* C7: on an engine holding its buffers, a processFrame call with a frame
\* shorter than the transform size returns success and leaves output[i]
\* equal to input[i] for every i below the frame length.
C7_PassThroughCopy ==
    [][(op' = "processFrame" /\ ~Released /\ Len(audioIn') # FFT_SIZE) =>
            /\ ret'
            /\ \A i \in 0 .. (Len(audioIn') - 1) : output'[i] = audioIn'[i + 1]]_vars

\* C7 witness: a two-sample frame holding both ends of the int16 range came
\* out unchanged
C7_Witness ==
    /\ op = "processFrame" /\ ret
    /\ audioIn = Edge2
    /\ output[0] = 32767 /\ output[1] = 0 - 32768

\* C8: every converted sample is inside the int16 range; a scaled sample
\* above 32767 gives 32767, one below -32768 gives -32768, and one in
\* between gives its integer part.
C8_OutputSaturates ==
    op = "convert" =>
        \A i \in DOMAIN output :
            LET scaled == outputBuffer[i] * FULL_SCALE
            IN  /\ output[i] >= INT16_MIN /\ output[i] <= INT16_MAX
                /\ scaled > F(INT16_MAX) => output[i] = INT16_MAX
                /\ scaled < F(INT16_MIN) => output[i] = INT16_MIN
                /\ (scaled >= F(INT16_MIN) /\ scaled <= F(INT16_MAX))
                      => output[i] * ONE = scaled

\* C8 witness: a sample of exactly 1.0 (scaled 32768) came out as 32767 and
\* its negative, -1.0, as -32768
C8_Witness ==
    /\ op = "convert"
    /\ outputBuffer[0] = ONE /\ output[0] = INT16_MAX
    /\ outputBuffer[1] = 0 - ONE /\ output[1] = INT16_MIN

\* C9: every sample the audio task writes back to processedBuffer is the
\* effects output scaled by 32768 and saturated to the int16 range.
C9_TaskOutputSaturates ==
    op = "audioTask" =>
        \A i \in 0 .. (Len(audioIn) - 1) :
            output[i] = Constrain(TruncToInt(effectsOut[i] * FULL_SCALE),
                                  INT16_MIN, INT16_MAX)

\* some buffer is held (ending releases all of them, so after begin()
\* this tells that not every allocation failed)
SomeHeld == ~Released

\* every buffer is held
AllHeld ==
    /\ inputBuffer # Null /\ outputBuffer # Null /\ overlapBuffer # Null
    /\ windowBuffer # Null /\ fftReal # Null /\ fftImag # Null
    /\ magnitude # Null /\ phase # Null
    /\ noiseSpectrum # Null /\ signalSpectrum # Null /\ wienerFilter # Null

\* C11: begin() never stores through a null buffer pointer, and after
\* begin() either every buffer is held and it returned true, or an
\* allocation failed, it returned false and no buffer is held.
C11_BeginReportsAllocationFailure ==
    /\ op # "restart"
    /\ op = "begin" => \/ AllHeld /\ ret
                       \/ Released /\ ~ret

\* C12: the forward transform followed by the inverse transform gives back
\* the frame it started from, with a zero imaginary part.
C12_RoundTrip ==
    op = "ifft" => /\ fftReal = inputBuffer
                   /\ fftImag = Arr(FFT_SIZE, 0)

\* C13: the AGC gain is at least 0.1 and at most 10.0 after construction
\* and after every AudioEffects::processFrame call.
C13_AgcGainInRange ==
    agcGain >= AGC_MIN_GAIN /\ agcGain <= AGC_MAX_GAIN

\* C13 witness: a frame quieter than the target has been processed with the
\* gain at its upper end, where the step would have taken it above 10.0
C13_Witness ==
    /\ op = "effects"
    /\ audioIn = Quarter4
    /\ agcGain = AGC_MAX_GAIN
    /\ AgcGainAfterUnclamped(agcGain, rms(FloatFrame(audioIn), Len(audioIn))) > AGC_MAX_GAIN

\* target / rms of an int16 frame
TargetGain(pcm) == FDiv(AGC_TARGET, rms(FloatFrame(pcm), Len(pcm)))

\* C14: a frame of constant non-zero amplitude whose target/rms lies in
\* the gain range never moves the AGC gain away from target/rms; a gain
\* that has arrived there stays there.
C14_AgcConverges ==
    [][(op' = "effects" /\ agcEnabled /\ audioIn' \in {Quarter4, Clip4}
          /\ TargetGain(audioIn') >= AGC_MIN_GAIN /\ TargetGain(audioIn') <= AGC_MAX_GAIN)
        => Abs(agcGain' - TargetGain(audioIn')) <= Abs(agcGain - TargetGain(audioIn'))]_vars

\* the VAD as resetVAD() leaves it, the estimator as resetNoiseEstimation()
\* leaves it (whatever the noise spectrum holds)
QuietReset ==
    /\ vadState = 0 /\ vadCounter = 0 /\ hangoverCounter = 0
    /\ noiseEstimationMode

\* C15: an all-zero full-size frame processed in the state the two resets
\* leave keeps that state (so the next frame of the run finds it again),
\* leaves the VAD inactive, and scales every noise-spectrum bin by
\* NOISE_FLOOR_ALPHA: no bin grows or goes below zero, and a positive bin
\* gets smaller.
C15_ZeroFramesDecayNoise ==
    [][(FrameDone /\ audioIn' = Silence4 /\ QuietReset) =>
            /\ QuietReset'
            /\ ~isVoiceActive'
            /\ \A k \in DOMAIN noiseSpectrum' :
                  /\ noiseSpectrum'[k] = FMul(NOISE_FLOOR_ALPHA, noiseSpectrum[k])
                  /\ noiseSpectrum'[k] >= 0
                  /\ noiseSpectrum'[k] <= noiseSpectrum[k]
                  /\ noiseSpectrum[k] > 0 => noiseSpectrum'[k] < noiseSpectrum[k]]_vars

\* C15 witness: two all-zero frames in a row since the last reset have
\* scaled the initial noise spectrum twice
C15_Witness ==
    /\ op = "processFrame" /\ ret
    /\ audioIn = Silence4
    /\ QuietReset
    /\ noiseFrameCount = 2
    /\ \A k \in DOMAIN noiseSpectrum :
          /\ noiseSpectrum[k] = FMul(NOISE_FLOOR_ALPHA, FMul(NOISE_FLOOR_ALPHA, NOISE_INIT))
          /\ noiseSpectrum[k] < NOISE_INIT

\* C16: resetVAD() leaves SILENCE, both counters zero and every history
\* entry zero, so isVoiceActive() is false and no history entry is
\* raw-active; and SILENCE turns into VOICE only in a processFrame call after
\* which the VAD_TRIGGER_FRAMES latest history entries are raw-active, that
\* is after that many frames processed since the reset.
C16_ResetVADClears ==
    /\ [][op' = "resetVAD" =>
            /\ vadState' = 0 /\ vadCounter' = 0 /\ hangoverCounter' = 0
            /\ energyHistory' = Arr(VAD_HANGOVER_FRAMES, 0)
            /\ zcrHistory' = Arr(VAD_HANGOVER_FRAMES, 0)
            /\ ~isVoiceActive'
            /\ \A k \in 0 .. (VAD_HANGOVER_FRAMES - 1) : ~RawActiveAt(k)']_vars
    /\ [][(vadState = 0 /\ vadState' = 1) =>
            /\ op' = "processFrame"
            /\ vadCounter' = VAD_TRIGGER_FRAMES
            /\ \A k \in 0 .. (VAD_TRIGGER_FRAMES - 1) : RawActiveAt(k)']_vars

\* C16 witness: resetVAD() has been called after voice had been confirmed
\* (estimation mode is off, with noise updates made before)
C16_Witness ==
    /\ op = "resetVAD"
    /\ ~isVoiceActive /\ vadCounter = 0 /\ hangoverCounter = 0
    /\ ~noiseEstimationMode
    /\ noiseFrameCount > 0

\* C17: end() leaves every buffer pointer null; on an engine whose pointers
\* are null end() changes no pointer (freeBuffers() frees only through a
\* non-null pointer, so nothing is freed again), processFrame returns
\* failure, and only begin() makes the engine hold a buffer again.
C17_EndReleases ==
    /\ [][op' = "end" => Released']_vars
    /\ [][(op' = "end" /\ Released) => UNCHANGED buffers]_vars
    /\ [][(op' = "processFrame" /\ Released) => ~ret']_vars
    /\ [][(Released /\ ~Released') => op' = "begin"]_vars

\* C17 witness: end() has been called on an engine that had processed
\* full-size frames
C17_Witness ==
    /\ op = "end"
    /\ Released
    /\ noiseFrameCount > 0
    /\ \E k \in 0 .. (VAD_HANGOVER_FRAMES - 1) : RawActiveAt(k)

\* C18: while the engine holds its noise spectrum, what getNoiseFloor()
\* returns lies within the current estimate, between the smallest and the
\* largest noise-spectrum bin.
C18_NoiseFloorFollowsEstimate ==
    noiseSpectrum # Null =>
        /\ \E k \in DOMAIN noiseSpectrum : noiseSpectrum[k] <= getNoiseFloor
        /\ \E k \in DOMAIN noiseSpectrum : noiseSpectrum[k] >= getNoiseFloor

\* the tasks that are inside a call of the engine
InEngine == {t \in Tasks : sched.pc[t] = "engine"}

\* C19: only the audio task is ever inside the engine, so never two tasks
\* at once; at most one engine call is made for a captured frame; a
\* captured frame is followed by the entry into the engine and by nothing
\* else, and the task is back at the top of its loop with exactly one call
\* made for the frame.
C19_OneCallPerFrame ==
    /\ [](InEngine \subseteq {"audio"})
    /\ [](sched.calls <= 1)
    /\ [][(sched.pc["audio"] = "captured" /\ sched'.pc["audio"] # "captured")
             => sched'.pc["audio"] = "engine" /\ sched'.calls = 1]_vars
    /\ [][(sched.pc["audio"] # "idle" /\ sched'.pc["audio"] = "idle")
             => sched.pc["audio"] = "engine" /\ sched'.calls = 1 /\ op' = "audioTask"]_vars
    /\ [][op' = "audioTask" /\ (op # op' \/ output # output' \/ vadVars # vadVars'
                                   \/ buffers # buffers' \/ effectVars # effectVars')
             => sched.pc["audio"] = "engine"]_vars

\* C19 witness: the audio task is inside the engine with its second frame
\* while the VAD task and the display task are awake
C19_Witness ==
    /\ InEngine = {"audio"}
    /\ sched.calls = 1
    /\ op = "audioTask"
    /\ sched.pc["vad"] = "delay"
    /\ sched.pc["display"] = "draw"

\* C20: a successful processFrame call, whatever the frame length, shifts
\* the VAD history by one entry and steps both VAD counters once; the noise
\* spectrum is updated (once) exactly when the frame is full-size and, after
\* that VAD step, the VAD is in SILENCE with estimation mode on, and is left
\* alone otherwise; the frame that turns SILENCE into VOICE leaves it alone.
C20_VadFirst ==
    [][FrameDone =>
        /\ \A k \in 1 .. (VAD_HANGOVER_FRAMES - 1) :
              /\ energyHistory'[k] = energyHistory[k - 1]
              /\ zcrHistory'[k] = zcrHistory[k - 1]
        /\ vadCounter' = IF RawActiveAt(0)' THEN vadCounter + 1 ELSE 0
        /\ hangoverCounter' = IF RawActiveAt(0)' THEN VAD_HANGOVER_FRAMES
                              ELSE IF hangoverCounter > 0 THEN hangoverCounter - 1
                              ELSE 0
        /\ \/ noiseFrameCount' = noiseFrameCount + 1
           \/ noiseFrameCount' = noiseFrameCount /\ noiseSpectrum' = noiseSpectrum
        /\ (noiseFrameCount' = noiseFrameCount + 1)
              = (Len(audioIn') = FFT_SIZE /\ vadState' = 0 /\ noiseEstimationMode')
        /\ (vadState = 0 /\ vadState' = 1) =>
              noiseFrameCount' = noiseFrameCount /\ noiseSpectrum' = noiseSpectrum]_vars

\* C20 witness: the third full-size raw-active frame in a row has confirmed
\* voice; the two before it updated the noise spectrum, it did not
C20_Witness ==
    /\ op = "processFrame" /\ ret
    /\ audioIn = Voice4
    /\ isVoiceActive /\ ~noiseEstimationMode
    /\ vadCounter = VAD_TRIGGER_FRAMES
    /\ noiseFrameCount = VAD_TRIGGER_FRAMES - 1
    /\ \A k \in DOMAIN noiseSpectrum : noiseSpectrum[k] # NOISE_INIT

\* z times exp(-2*pi*i*m/4) = (-i)^m, exact for a 4-point transform
TimesQuarterTurn(z, m) ==
    CASE m % 4 = 0 -> z
      [] m % 4 = 1 -> [re |-> z.im, im |-> 0 - z.re]
      [] m % 4 = 2 -> [re |-> 0 - z.re, im |-> 0 - z.im]
      [] m % 4 = 3 -> [re |-> 0 - z.im, im |-> z.re]

\* the sum over n < upTo of x[n] * exp(-2*pi*i*k*n/4)
RECURSIVE DftSum(_, _, _)
DftSum(x, k, upTo) ==
    IF upTo = 0 THEN [re |-> 0, im |-> 0]
    ELSE LET rest == DftSum(x, k, upTo - 1)
             term == TimesQuarterTurn([re |-> x[upTo - 1], im |-> 0], k * (upTo - 1))
         IN  [re |-> rest.re + term.re, im |-> rest.im + term.im]

\* C21: after the forward transform of the frame in inputBuffer, bin k of
\* fftReal and fftImag holds the discrete Fourier transform
\* X[k] = sum over n of x[n] * exp(-2*pi*i*k*n/N) of that frame.
C21_FftIsDft ==
    op = "fft" =>
        \A k \in 0 .. (FFT_SIZE - 1) :
            /\ fftReal[k] = DftSum(inputBuffer, k, FFT_SIZE).re
            /\ fftImag[k] = DftSum(inputBuffer, k, FFT_SIZE).im

\* C22: the spectrum computeRealImag leaves for the inverse transform is
\* conjugate-symmetric: real[N-k] = real[k] and imag[N-k] = -imag[k] for
\* every k in 1..N-1, so the Nyquist bin has imaginary part 0.
C22_ConjugateSymmetric ==
    op = "computeRealImag" =>
        /\ \A k \in 1 .. (TransformSize - 1) :
              /\ fftReal[TransformSize - k] = fftReal[k]
              /\ fftImag[TransformSize - k] = 0 - fftImag[k]
        /\ fftImag[TransformSize \div 2] = 0

\* C22 witness: a reconstructed spectrum with a non-zero imaginary part in
\* bin 3, mirrored with the opposite sign, a non-zero real part in bin 1,
\* mirrored as it is, and a non-zero Nyquist bin
C22_Witness ==
    /\ op = "computeRealImag"
    /\ fftImag[3] # 0 /\ fftImag[TransformSize - 3] = 0 - fftImag[3]
    /\ fftReal[1] # 0 /\ fftReal[TransformSize - 1] = fftReal[1]
    /\ fftReal[TransformSize \div 2] # 0

\* the distance between two grid values
Dist(a, b) == IF a >= b THEN a - b ELSE b - a

\* C23: between analysis and reconstruction nothing writes the phase buffer,
\* the filter multiplies each magnitude by its gain, and each reconstructed
\* bin below N/2 is the forward transform's bin scaled by the gain (the same
\* direction, the magnitude times the gain), to within 4 grid steps of
\* rounding.
C23_GainOnMagnitudeOnly ==
    [][/\ op \in {"computeMagnitudePhase", "updateNoiseSpectrum", "applyFilter"}
            => phase' = phase
       /\ op' = "applyFilter"
            => \A k \in DOMAIN magnitude :
                  magnitude'[k] = FMul(magnitude[k], wienerFilter'[k])
       /\ op' = "computeRealImag"
            => \A k \in 0 .. (TransformSize \div 2 - 1) :
                  /\ Dist(fftReal'[k], FMul(wienerFilter[k], fftReal[k])) <= 4
                  /\ Dist(fftImag'[k], FMul(wienerFilter[k], fftImag[k])) <= 4]_vars

\* C23 witness: a reconstructed bin with a non-zero imaginary part whose
\* gain was below 1 and above the spectral floor
C23_Witness ==
    /\ op = "computeRealImag"
    /\ fftImag[3] # 0
    /\ wienerFilter[3] < ONE /\ wienerFilter[3] > SPECTRAL_FLOOR
    /\ noiseFrameCount = 1

\* C24: every bin of an allocated noise spectrum is non-negative and every
\* stored magnitude is non-negative, so noise[k] + epsilon and 1 + snr, the
\* two divisors of computeWienerFilter, are strictly positive.
C24_DivisorsPositive ==
    noiseSpectrum # Null =>
        \A k \in DOMAIN noiseSpectrum :
            /\ noiseSpectrum[k] >= 0
            /\ magnitude[k] >= 0
            /\ noiseSpectrum[k] + WIENER_EPS > 0
            /\ ONE + FDiv(magnitude[k], noiseSpectrum[k] + WIENER_EPS) > 0

\* C24 witness: a full-length frame went through the gain computation with
\* a noise estimate that has moved away from its initial value
C24_Witness ==
    /\ op = "processFrame" /\ ret
    /\ Len(audioIn) = FFT_SIZE
    /\ noiseFrameCount > 0
    /\ \E k \in DOMAIN noiseSpectrum : noiseSpectrum[k] > NOISE_INIT
    /\ \E k \in DOMAIN noiseSpectrum : noiseSpectrum[k] < NOISE_INIT

\* the last sample of the frame the effects received, as a float
LastIn == FloatFrame(audioIn')[Len(audioIn') - 1]

C26_AccessesInBounds == ~heap.overrun

\* C27: a processFrame call on a frame whose length is not the transform
\* size leaves the overlap buffer, the noise spectrum, the Wiener gains and
\* the noise frame count as they were.
C27_OtherLengthsKeepSpectralState ==
    [][(op' = "processFrame" /\ Len(audioIn') # FFT_SIZE)
          => UNCHANGED <<overlapBuffer, noiseSpectrum, wienerFilter, noiseFrameCount>>]_vars

\* C28: the blocks live in the allocator are exactly the buffers the engine
\* points to, so that end() or the destructor frees each of them once and
\* none is lost or freed twice.
C28_EveryBlockFreedOnce == heap.live = Held

\* C29: right after a begin() the engine is in its initial processing
\* state: VAD state SILENCE, trigger and hangover counters 0, estimation
\* mode on, every noise bin at its initial value, the overlap buffer zero.
C29_BeginRestoresInitialState ==
    op = "begin" =>
        /\ vadState = 0 /\ vadCounter = 0 /\ hangoverCounter = 0
        /\ noiseEstimationMode
        /\ noiseSpectrum = Arr(FFT_SIZE \div 2, NOISE_INIT)
        /\ overlapBuffer = Arr(OVERLAP_SIZE, 0)

\* the long-press events a pass of updateButtons has added to the queue
LongEventsAdded ==
    Cardinality({i \in (Len(sched.queue) + 1) .. Len(sched'.queue) :
                    sched'.queue[i] = MuteLongEvent})

\* the pass of updateButtons that sees the release of a mute press held
\* longer than BUTTON_LONG_PRESS_MS
LongPressReleased ==
    /\ sched.pc["loop"] = "update" /\ sched'.pc["loop"] = "idle"
    /\ sched.button.lastPressed /\ ~sched'.button.lastPressed
    /\ sched'.now - sched.button.pressTime > BUTTON_LONG_PRESS_MS

\* C30: when a mute press held longer than BUTTON_LONG_PRESS_MS is
\* released, the long-press events enqueued for it, the one sent while it
\* was held (longPressed set) and the one sent at the release, are one.
C30_OneLongEventPerPress ==
    [][LongPressReleased =>
          (IF sched.button.longPressed THEN 1 ELSE 0) + LongEventsAdded = 1]_vars

\* C31: every I2C transaction is made by the context that holds i2cMutex,
\* the mutex exists before it is first taken, and so no two contexts are on
\* the bus at the same time
C31_BusUnderMutex ==
    /\ Cardinality(codec.onBus) <= 1
    /\ \A t \in codec.onBus : codec.i2cMutex = t
    /\ ~codec.nullTake

\* the connection the callbacks have reported so far
Reported(callbacks) ==
    IF callbacks = << >> THEN FALSE ELSE callbacks[Len(callbacks)] = "CONNECTED"

\* C37: whenever processIncomingData returns, the callbacks made so far
\* alternate, starting with CONNECTED, and the last one tells the connected
\* bit it has read: one callback for each change of the bit
C37_OneCallbackPerChange ==
    [][(codec.pc["audio"] = "process" /\ codec'.pc["audio"] = "idle")
         => /\ Reported(codec'.callbacks) = Connected(codec.currentStatus)
            /\ \A i \in 1 .. Len(codec'.callbacks) :
                  codec'.callbacks[i] = (IF i % 2 = 1 THEN "CONNECTED" ELSE "DISCONNECTED")]_vars

\* C33: device_info.is_connected is true exactly when bt_state is
\* BT_STATE_CONNECTED or BT_STATE_PLAYING
C33_ConnectedIffState ==
    idf.bt.is_connected <=> idf.bt.bt_state \in {"CONNECTED", "PLAYING"}

\* C34: when bluetooth_manager_init finds a last device stored, with
\* auto-reconnect enabled and the stack accepting the connection request,
\* it has called esp_a2dp_sink_connect once and leaves bt_state at
\* BT_STATE_CONNECTING
C34_InitReconnects ==
    [][(/\ ~idf.bt.bt_initialized /\ idf'.bt.bt_initialized
        /\ idf'.bt.found = [stored |-> TRUE, auto |-> TRUE, ok |-> TRUE])
         => /\ idf'.bt.connects = idf.bt.connects + 1
            /\ idf'.bt.bt_state = "CONNECTING"]_vars

\* no activity for more than the activity timeout, on a power manager that
\* is initialized and has not shut the system down
Quiet ==
    /\ idf.power.power_initialized
    /\ idf.power.power_state # "SHUTDOWN"
    /\ idf.power.now - idf.power.last_activity_time > idf.power.activity_timeout_ms

\* C36: once no activity has been detected for a full activity timeout, a
\* SYSTEM_EVENT_POWER_SLEEP is eventually sent
C36_QuietLeadsToSleep == Quiet ~> (idf.power.sleeps > 0 \/ idf.power.power_state = "SHUTDOWN")

\* C39: since the last battery reading at or above the low-battery
\* threshold, SYSTEM_EVENT_POWER_LOW has been sent at most once
C39_OneLowEventPerExcursion == idf.power.lowEvents <= 1

\* the event has been sent and a further reading below the threshold taken
C39_Witness ==
    /\ idf.power.lowEvents = 1
    /\ idf.power.lowReadings = MaxLowReadings
    /\ idf.power.battery_info.is_low
    /\ idf.power.battery_info.voltage_mv < POWER_LOW_BATTERY_THRESHOLD_MV

\* C35: with the event queue empty and the main task outside the event
\* handler, system_state is SYSTEM_STATE_CONNECTED or SYSTEM_STATE_PLAYING
\* exactly when the Bluetooth manager reports a connection
C35_SystemFollowsBluetooth ==
    (idf.system_event_queue.items = << >> /\ idf.main.pc \in {"loop", "maintain"})
      => (idf.system_state \in {"CONNECTED", "PLAYING"} <=> idf.bt.is_connected)

\* C32: once SYSTEM_EVENT_AUDIO_PLAY has been handled (system_state is
\* SYSTEM_STATE_PLAYING) the audio manager is in AUDIO_STATE_PLAYING, and a
\* block the audio task takes in that state is written to I2S, not
\* returned unwritten
C32_PlayingWritesBlocks ==
    /\ [](idf.system_state = "PLAYING" => idf.audio.state = "PLAYING")
    /\ [][(idf.system_state = "PLAYING" /\ idf.audio.task = "holding"
           /\ idf'.audio.task = "receive")
            => idf'.audio.discarded = idf.audio.discarded]_vars

\* C38: the ring buffer is not used after audio_manager_deinit has deleted
\* it, and the audio task is not deleted while it holds an item it has not
\* returned
C38_NoUseAfterDelete == ~idf.audio.afterDelete /\ ~idf.audio.lostItem

====
